---- MODULE Spec2Model ----
(***************************************************************************)
(* Progress tracking and level-by-level recommendation of the              *)
(* pronunciation-learning backend (app/services/progress_service.py,       *)
(* app/learning/service.py).                                               *)
(*                                                                         *)
(* Units.  Scores and moving averages are Python floats with at most two   *)
(* decimals; they are held here as integers in hundredths (Scale).         *)
(* penalty_score moves in steps of 0.5 and 0.2 and is held in tenths       *)
(* (0.5 is 5, 0.2 is 2).  For the integer scores of Scores and records of up to  *)
(* six attempts these integers are exactly the values CPython computes     *)
(* (round(x, 2) on the exact ties that occur is round-half-even).          *)
(***************************************************************************)
EXTENDS Integers, Sequences, FiniteSets, TLC

----------------------------------------------------------------------------
(* Bounds of the model *)

\* number of state-changing service calls that are started in one behaviour
MaxCalls == 3

\* number of POST /progress/record requests started in one behaviour of
\* the interleaved specification
MaxConcCalls == 2

\* request inputs; the learner who sends requests is user 1
Users == {1}
Texts == {"cat", "dog", "sun", "zzz"}
Scores == {50, 60, 80, 90}
Times == {5}
Similarities == {90}
Sessions == {1, 2}

\* level names asked for; there is no level Z
LevelNames == {"A", "B", "C", "Z"}

\* longest token list handed to compare_token_sequences
MaxLen == 3

\* the phonemes that occur in the token lists
Phonemes == {<<"K">>, <<"A", "E">>, <<"E", "H">>, <<"T">>}

\* longest run of one phoneme in the token list of a held sound
MaxHold == 4

\* the phonemes of the token lists with a held sound
HeldPhonemes == {<<"K">>, <<"A", "E">>, <<"T">>}

\* most words in an expected text, and most tokens decoded from a recording
MaxWords == 2
MaxDecoded == 3

\* the words of the expected texts: "cat", "a", "Cat?" and "2"
Vocabulary == {<<"c", "a", "t">>, <<"a">>, <<"C", "a", "t", "?">>, <<"2">>}

\* the tokens the phoneme model decodes
DecodedTokens == {<<"k">>, <<"a", "e">>, <<"t">>}

\* the longest run of poor attempts on one word
MaxPoor == 65

\* compare_words: words of up to MaxWordLen letters from WordChars, and a
\* few with a capital or a blank
MaxWordLen == 5
WordChars == {"a", "c"}
SpecialWords == {<<"C", "a">>, <<" ", "a">>, <<"a", " ">>, <<" ">>}

----------------------------------------------------------------------------
(* Program constants *)

Scale == 100
MASTER_THRESHOLD == 80
LOW_SCORE == 60
PENALTY_STEP == 5
PENALTY_DECAY == 2

VARIABLES
    word_rows,        \* table words              (app/models/word.py)
    level_rows,       \* table levels             (backend/app/models/level.py)
    level_word_rows,  \* table level_words links  (app/models/level_word.py)
    user_progress,    \* table user_progress      (app/models/progress.py)
    learning_rows,    \* table level_words of app/learning/models.py
    sess,             \* per request: the SessionLocal() of the route
    response,         \* what the last finished call handed to its caller
    calls,            \* service calls started so far
    request           \* arguments of the phoneme analysis under way

vars == <<word_rows, level_rows, level_word_rows, user_progress,
          learning_rows, sess, response, calls, request>>

curriculum == <<word_rows, level_rows, level_word_rows>>

----------------------------------------------------------------------------
(* Rows and queries *)

None == [id |-> 0]

SeqToSet(s) == {s[i] : i \in 1..Len(s)}

Max(a, b) == IF a > b THEN a ELSE b

\* Query.first() on the rows a filter selects, which come in stored (id)
\* order: the first of them, None when there is none.
FirstRow(rows) == IF rows = <<>> THEN None ELSE Head(rows)

\* round(x / 2, 2) for x in hundredths
RoundHalf(x) ==
    LET q == x \div 2
    IN  IF x % 2 = 0 THEN q
        ELSE IF q % 2 = 0 THEN q ELSE q + 1

\* round(num / den * 100, 2) in hundredths, for num already multiplied by
\* 100 * Scale: the nearest hundredth, a tie going to the even one
RoundDiv(num, den) ==
    LET q == num \div den
        r == num % den
    IN  IF 2 * r < den THEN q
        ELSE IF 2 * r > den THEN q + 1
        ELSE IF q % 2 = 0 THEN q ELSE q + 1

----------------------------------------------------------------------------
(* record_attempt *)

YesNo(b) == IF b THEN "yes" ELSE "no"

MasteredAbove(score) == YesNo(score > MASTER_THRESHOLD)

\* "yes" if score >= MASTER_THRESHOLD else "no"
Mastered(score) == YesNo(score >= MASTER_THRESHOLD)

FirstPenaltyStrict(score) == IF score > LOW_SCORE THEN 0 ELSE PENALTY_STEP

\* 0 if score >= 60 else 0.5
FirstPenalty(score) == IF score >= LOW_SCORE THEN 0 ELSE PENALTY_STEP

\* the UserProgress(...) object of the else branch
NewProgress(id, user_id, word_id, score, time_spent) ==
    [id               |-> id,
     user_id          |-> user_id,
     word_id          |-> word_id,
     score            |-> score * Scale,
     attempts         |-> 1,
     mastered         |-> Mastered(score),
     total_time       |-> time_spent,
     moving_avg_score |-> score * Scale,
     streak_score     |-> 0,
     penalty_score    |-> FirstPenalty(score),
     last_attempt     |-> "utcnow"]

StreakResets(p, score) ==
    IF score * Scale > p.score THEN p.streak_score + 1
    ELSE IF score * Scale < p.score THEN p.streak_score - 1
    ELSE 0

Streak(p, score) ==
    IF score * Scale > p.score THEN p.streak_score + 1
    ELSE IF score * Scale < p.score THEN p.streak_score - 1
    ELSE p.streak_score

PenaltyNoFloor(p, score) ==
    IF score < LOW_SCORE THEN p.penalty_score + PENALTY_STEP
    ELSE p.penalty_score - PENALTY_DECAY

PenaltyNoDecay(p, score) ==
    IF score < LOW_SCORE THEN p.penalty_score + PENALTY_STEP
    ELSE Max(0, p.penalty_score)

Penalty(p, score) ==
    IF score < LOW_SCORE THEN p.penalty_score + PENALTY_STEP
    ELSE Max(0, p.penalty_score - PENALTY_DECAY)

UpdatedProgressKeepsBest(p, score, time_spent) ==
    [id               |-> p.id,
     user_id          |-> p.user_id,
     word_id          |-> p.word_id,
     score            |-> Max(p.score, score * Scale),
     attempts         |-> p.attempts + 1,
     mastered         |-> Mastered(score),
     total_time       |-> p.total_time + time_spent,
     moving_avg_score |-> RoundHalf(p.moving_avg_score + score * Scale),
     streak_score     |-> Streak(p, score),
     penalty_score    |-> Penalty(p, score),
     last_attempt     |-> "utcnow"]

\* the loaded object p after the assignments of the if branch
UpdatedProgress(p, score, time_spent) ==
    [id               |-> p.id,
     user_id          |-> p.user_id,
     word_id          |-> p.word_id,
     score            |-> score * Scale,
     attempts         |-> p.attempts + 1,
     mastered         |-> Mastered(score),
     total_time       |-> p.total_time + time_spent,
     moving_avg_score |-> RoundHalf(p.moving_avg_score + score * Scale),
     streak_score     |-> Streak(p, score),
     penalty_score    |-> Penalty(p, score),
     last_attempt     |-> "utcnow"]

FlushByWord(table, loaded, obj) ==
    [i \in DOMAIN table |->
        IF table[i].word_id = loaded.word_id
        THEN [c \in DOMAIN obj |->
                 IF c \in {"id", "user_id"} THEN table[i][c]
                 ELSE IF obj[c] # loaded[c] THEN obj[c] ELSE table[i][c]]
        ELSE table[i]]

\* db.commit() of a loaded object: the unit of work sends an UPDATE of the
\* columns whose value differs from the loaded one, for the row with the
\* object's primary key; the other columns keep what the table holds.
Flush(table, loaded, obj) ==
    [table EXCEPT ![loaded.id] =
        [c \in DOMAIN obj |->
            IF obj[c] # loaded[c] THEN obj[c] ELSE table[loaded.id][c]]]

\* db.add(obj); db.commit(): INSERT, the primary key is the next id
Insert(table, obj) == Append(table, [obj EXCEPT !.id = Len(table) + 1])

WordByText(text) == FirstRow(SelectSeq(word_rows, LAMBDA w : w.text = text))

ProgressOf(user_id, word_id) ==
    FirstRow(SelectSeq(user_progress,
                       LAMBDA p : p.user_id = user_id /\ p.word_id = word_id))

\* the record of a learner whose attempts on a word had the scores of
\* `history`, each served on its own and with time_spent 5
RECURSIVE AfterAttempts(_, _, _, _)
AfterAttempts(id, user_id, word_id, history) ==
    IF Len(history) = 1
    THEN NewProgress(id, user_id, word_id, history[1], 5)
    ELSE UpdatedProgress(
             AfterAttempts(id, user_id, word_id,
                           SubSeq(history, 1, Len(history) - 1)),
             history[Len(history)], 5)

StoreDropped(progress, user_id, word_id, score, time_spent) == user_progress

\* lines 43-82 for the row `progress` the call has read
Store(progress, user_id, word_id, score, time_spent) ==
    IF progress # None
    THEN Flush(user_progress, progress,
               UpdatedProgress(progress, score, time_spent))
    ELSE Insert(user_progress,
                NewProgress(0, user_id, word_id, score, time_spent))

Recorded(word, score) ==
    [status |-> 200, message |-> "Attempt recorded", word |-> word,
     score |-> score * Scale]

WordNotFoundAsOk == [status |-> 200, error |-> "Word not found"]

\* {"error": "Word not found"}, raised by the route as HTTPException(404)
WordNotFound == [status |-> 404, detail |-> "Word not found"]

Idle == [pc |-> "idle"]

\* no phoneme analysis has been asked for
NoRequest == [op |-> "none"]

\* POST /progress/record served from start to end with no other request
\* in between
RecordAttempt(user_id, word, score, time_spent) ==
    /\ calls < MaxCalls
    /\ \A s \in Sessions : sess[s] = Idle
    /\ calls' = calls + 1
    /\ LET word_obj == WordByText(word)
       IN  IF word_obj = None
           THEN /\ response' = WordNotFound
                /\ UNCHANGED user_progress
           ELSE /\ user_progress' =
                      Store(ProgressOf(user_id, word_obj.id),
                            user_id, word_obj.id, score, time_spent)
                /\ response' = Recorded(word, score)
    /\ UNCHANGED <<curriculum, request, learning_rows, sess>>

\* POST /progress/record of a learner who practises the word that
\* recommend_next_word has just returned; the learner fails a word only
\* in the first MaxCalls calls, and after them makes no more calls than
\* there are words
PractiseWord(user_id, score, time_spent) ==
    /\ "recommend" \in DOMAIN response
    /\ calls < (IF score < MASTER_THRESHOLD THEN MaxCalls
                ELSE MaxCalls + Len(word_rows))
    /\ \A s \in Sessions : sess[s] = Idle
    /\ calls' = calls + 1
    /\ LET word == response.recommend
           word_obj == WordByText(word)
       IN  IF word_obj = None
           THEN /\ response' = WordNotFound
                /\ UNCHANGED user_progress
           ELSE /\ user_progress' =
                      Store(ProgressOf(user_id, word_obj.id),
                            user_id, word_obj.id, score, time_spent)
                /\ response' = Recorded(word, score)
    /\ UNCHANGED <<curriculum, request, learning_rows, sess>>

\* the same request in its own session, up to the two queries (lines 33-41)
Query(s, user_id, word, score, time_spent) ==
    /\ calls < MaxConcCalls
    /\ sess[s] = Idle
    /\ calls' = calls + 1
    /\ LET word_obj == WordByText(word)
       IN  IF word_obj = None
           THEN /\ response' = WordNotFound
                /\ UNCHANGED sess
           ELSE /\ sess' = [sess EXCEPT ![s] =
                      [pc         |-> "loaded",
                       user_id    |-> user_id,
                       word       |-> word,
                       word_id    |-> word_obj.id,
                       score      |-> score,
                       time_spent |-> time_spent,
                       progress   |-> ProgressOf(user_id, word_obj.id)]]
                /\ UNCHANGED response
    /\ UNCHANGED <<curriculum, request, user_progress, learning_rows>>

\* ... and from the if to the return (lines 43-84)
Commit(s) ==
    /\ sess[s].pc = "loaded"
    /\ user_progress' =
           Store(sess[s].progress, sess[s].user_id, sess[s].word_id,
                 sess[s].score, sess[s].time_spent)
    /\ response' = Recorded(sess[s].word, sess[s].score)
    /\ sess' = [sess EXCEPT ![s] = Idle]
    /\ UNCHANGED <<curriculum, request, learning_rows, calls>>

----------------------------------------------------------------------------
(* app/learning/service.py: the per-user LevelWord record *)

RECURSIVE Gcd(_, _)
Gcd(a, b) == IF b = 0 THEN a ELSE Gcd(b, a % b)

\* the float a / b, held as the reduced fraction <<numerator, denominator>>
Ratio(a, b) == LET g == Gcd(a, b) IN <<a \div g, b \div g>>

Zero == <<0, 1>>

\* x >= 0.8 for a fraction x
AtLeastFourFifths(x) == 5 * x[1] >= 4 * x[2]

\* the object after the assignments of update_level_word
UpdatedLevelWord(lw, is_correct, similarity) ==
    LET attempts == lw.attempts + 1
        correct  == IF is_correct THEN lw.correct_attempts + 1
                    ELSE lw.correct_attempts
        mastery  == Ratio(correct, attempts)
    IN  [lw EXCEPT !.attempts          = attempts,
                   !.correct_attempts  = correct,
                   !.mastery_score     = mastery,
                   !.is_mastered       = IF AtLeastFourFifths(mastery) THEN TRUE
                                         ELSE lw.is_mastered,
                   !.last_similarity   = similarity,
                   !.last_practiced_at = "utcnow"]

ResetKeepsMastery(lw) ==
    [lw EXCEPT !.attempts          = 0,
               !.correct_attempts  = 0,
               !.mastery_score     = Zero,
               !.last_similarity   = 0,
               !.last_practiced_at = "None"]

\* the object after the assignments of reset_level_word
ResetLevelWordRow(lw) ==
    [lw EXCEPT !.attempts          = 0,
               !.correct_attempts  = 0,
               !.mastery_score     = Zero,
               !.is_mastered       = FALSE,
               !.last_similarity   = 0,
               !.last_practiced_at = "None"]

Returned(by, row) == [by |-> by, level_word |-> row]

update_level_word(i, is_correct, similarity) ==
    /\ calls < MaxCalls
    /\ \A s \in Sessions : sess[s] = Idle
    /\ i \in 1..Len(learning_rows)
    /\ calls' = calls + 1
    /\ LET level_word == UpdatedLevelWord(learning_rows[i], is_correct, similarity)
       IN  /\ learning_rows' = Flush(learning_rows, learning_rows[i], level_word)
           /\ response' = Returned("update_level_word", level_word)
    /\ UNCHANGED <<curriculum, request, user_progress, sess>>

reset_level_word(i) ==
    /\ \A s \in Sessions : sess[s] = Idle
    /\ i \in 1..Len(learning_rows)
    /\ LET level_word == ResetLevelWordRow(learning_rows[i])
       IN  /\ learning_rows' = Flush(learning_rows, learning_rows[i], level_word)
           /\ response' = Returned("reset_level_word", level_word)
    /\ UNCHANGED <<curriculum, request, user_progress, sess, calls>>

----------------------------------------------------------------------------
(* recommend_next_word *)

\* Query.order_by(Level.id.asc()).all(): insertion sort on id
RECURSIVE InsertById(_, _)
InsertById(sorted, row) ==
    IF sorted = <<>> THEN <<row>>
    ELSE IF row.id < Head(sorted).id THEN <<row>> \o sorted
         ELSE <<Head(sorted)>> \o InsertById(Tail(sorted), row)

RECURSIVE OrderById(_)
OrderById(table) ==
    IF table = <<>> THEN <<>>
    ELSE InsertById(OrderById(Tail(table)), Head(table))

\* {p.word_id: p for p in progress_entries}.get(word_id): a later entry of
\* the list replaces an earlier one with the same key
RECURSIVE ProgressMapGet(_, _)
ProgressMapGet(progress_entries, word_id) ==
    IF progress_entries = <<>> THEN None
    ELSE LET last == progress_entries[Len(progress_entries)]
         IN  IF last.word_id = word_id THEN last
             ELSE ProgressMapGet(SubSeq(progress_entries, 1,
                                        Len(progress_entries) - 1), word_id)

\* unmastered.sort(key=lambda w: progress_map[w.id].score): a stable sort,
\* here by insertion behind the words whose score is not greater
RECURSIVE InsertByScore(_, _, _)
InsertByScore(sorted, word, progress_entries) ==
    IF sorted = <<>> THEN <<word>>
    ELSE IF ProgressMapGet(progress_entries, word.id).score
              < ProgressMapGet(progress_entries, Head(sorted).id).score
         THEN <<word>> \o sorted
         ELSE <<Head(sorted)>> \o InsertByScore(Tail(sorted), word, progress_entries)

RECURSIVE SortByScore(_, _)
SortByScore(words, progress_entries) ==
    IF words = <<>> THEN <<>>
    ELSE InsertByScore(SortByScore(SubSeq(words, 1, Len(words) - 1), progress_entries),
                       words[Len(words)], progress_entries)

ProgressEntriesOfNobody(user_id, level_word_ids) == <<>>

ProgressEntriesAnyUser(user_id, level_word_ids) ==
    SelectSeq(user_progress, LAMBDA p : p.word_id \in level_word_ids)

\* the user's progress rows for the words of a level
ProgressEntries(user_id, level_word_ids) ==
    SelectSeq(user_progress,
        LAMBDA p : p.user_id = user_id /\ p.word_id \in level_word_ids)

NewWordLast(not_attempted) == not_attempted[Len(not_attempted)]

\* not_attempted[0]
NewWord(not_attempted) == not_attempted[1]

WorstWordUnsorted(unmastered, progress_entries) == unmastered[1]

\* unmastered.sort(key=score); unmastered[0]
WorstWord(unmastered, progress_entries) ==
    SortByScore(unmastered, progress_entries)[1]

LevelOpenOffByOne(mastered, words) == Len(mastered) < Len(words) - 1

\* the test `len(mastered) < len(words)` that keeps the learner in a level
LevelOpen(mastered, words) == Len(mastered) < Len(words)

AllMastered == [status |-> 200, message |-> "All levels mastered - Great job!"]
NoLevels == [status |-> 200, message |-> "No levels available."]

RECURSIVE RecommendFrom(_, _)
RecommendFrom(levels, user_id) ==
    IF levels = <<>> THEN AllMastered
    ELSE
    LET level == Head(levels)
        level_word_links == SelectSeq(level_word_rows, LAMBDA lw : lw.level_id = level.id)
        level_word_ids == {level_word_links[i].word_id : i \in 1..Len(level_word_links)}
        words == SelectSeq(word_rows, LAMBDA w : w.id \in level_word_ids)
        progress_entries == ProgressEntries(user_id, level_word_ids)
        Entry(w) == ProgressMapGet(progress_entries, w.id)
        not_attempted == SelectSeq(words, LAMBDA w : Entry(w) = None)
        unmastered == SelectSeq(words, LAMBDA w : /\ Entry(w) # None
                                            /\ Entry(w).score < MASTER_THRESHOLD * Scale)
        mastered == SelectSeq(words, LAMBDA w : /\ Entry(w) # None
                                          /\ Entry(w).score >= MASTER_THRESHOLD * Scale)
    IN  IF level_word_ids = {} THEN RecommendFrom(Tail(levels), user_id)
        ELSE IF LevelOpen(mastered, words) /\ not_attempted # <<>>
        THEN [status    |-> 200,
              level     |-> level.name,
              recommend |-> NewWord(not_attempted).text,
              reason    |-> "New word not attempted yet"]
        ELSE IF LevelOpen(mastered, words) /\ unmastered # <<>>
        THEN LET worst_word == WorstWord(unmastered, progress_entries)
             IN  [status    |-> 200,
                  level     |-> level.name,
                  recommend |-> worst_word.text,
                  reason    |-> "Lowest score, needs improvement",
                  score     |-> Entry(worst_word).score]
        ELSE RecommendFrom(Tail(levels), user_id)

recommend_next_word(user_id) ==
    LET levels == OrderById(level_rows)
    IN  IF levels = <<>> THEN NoLevels ELSE RecommendFrom(levels, user_id)

\* GET /progress/{user_id}/recommend
recommend_next(user_id) ==
    /\ \A s \in Sessions : sess[s] = Idle
    /\ response' = recommend_next_word(user_id)
    /\ UNCHANGED <<curriculum, request, user_progress, learning_rows, sess, calls>>

----------------------------------------------------------------------------
(* get_level_status, and the recommenders of backend/app/services *)

LevelByName(level_name) ==
    FirstRow(SelectSeq(level_rows, LAMBDA l : l.name = level_name))

\* {"error": "Level not found"}
LevelNotFound == [error |-> "Level not found"]

\* status of a word in get_level_status, p being progress_map.get(w.id)
WordStatus(p) ==
    IF p = None THEN "not_started"
    ELSE IF p.score >= MASTER_THRESHOLD * Scale THEN "mastered"
    ELSE IF p.attempts > 0 THEN "in_progress"
    ELSE "not_started"

CountStatus(word_list, status) ==
    Cardinality({k \in 1..Len(word_list) : word_list[k].status = status})

get_level_status(user_id, level_name) ==
    LET level == LevelByName(level_name)
        level_word_links == SelectSeq(level_word_rows, LAMBDA lw : lw.level_id = level.id)
        word_ids == {level_word_links[i].word_id : i \in 1..Len(level_word_links)}
        words == SelectSeq(word_rows, LAMBDA w : w.id \in word_ids)
        progress_entries == ProgressEntries(user_id, word_ids)
        word_list ==
            [k \in 1..Len(words) |->
                LET p == ProgressMapGet(progress_entries, words[k].id)
                IN  [word     |-> words[k].text,
                     status   |-> WordStatus(p),
                     score    |-> IF p = None THEN None ELSE p.score,
                     attempts |-> IF p = None THEN 0 ELSE p.attempts]]
        mastered == CountStatus(word_list, "mastered")
    IN  IF level = None THEN LevelNotFound
        ELSE IF level_word_links = <<>>
        THEN [level |-> level.name, total_words |-> 0, mastered |-> 0,
              in_progress |-> 0, not_started |-> 0,
              completion_percent |-> 0, words |-> <<>>]
        ELSE [level              |-> level.name,
              total_words        |-> Len(words),
              mastered           |-> mastered,
              in_progress        |-> CountStatus(word_list, "in_progress"),
              not_started        |-> CountStatus(word_list, "not_started"),
              completion_percent |-> IF Len(words) > 0
                                     THEN RoundDiv(mastered * 100 * Scale, Len(words))
                                     ELSE 0,
              words              |-> word_list]

\* what a route returns for the dictionary `data` of a service: the
\* progress routes turn {"error": ...} into HTTPException(404)
Raise404(data) ==
    IF "error" \in DOMAIN data THEN [status |-> 404, detail |-> data.error]
    ELSE data

\* GET /progress/{user_id}/levels/{level}/status
level_status(user_id, level) ==
    /\ \A s \in Sessions : sess[s] = Idle
    /\ response' = Raise404(get_level_status(user_id, level))
    /\ UNCHANGED <<curriculum, request, user_progress, learning_rows, sess, calls>>

BackendAllMastered == [message |-> "All levels mastered!"]

\* the loop of recommend_next_word in backend/app/services/progress_service.py
RECURSIVE BackendRecommendFrom(_, _)
BackendRecommendFrom(levels, user_id) ==
    IF levels = <<>> THEN BackendAllMastered
    ELSE
    LET level == Head(levels)
        links == SelectSeq(level_word_rows, LAMBDA l : l.level_id = level.id)
        word_ids == {links[i].word_id : i \in 1..Len(links)}
        words == SelectSeq(word_rows, LAMBDA w : w.id \in word_ids)
        progress_entries == ProgressEntries(user_id, word_ids)
        Entry(w) == ProgressMapGet(progress_entries, w.id)
        not_attempted == SelectSeq(words, LAMBDA w : Entry(w) = None)
        unmastered == SelectSeq(words, LAMBDA w : /\ Entry(w) # None
                                            /\ Entry(w).score < MASTER_THRESHOLD * Scale)
        mastered == SelectSeq(words, LAMBDA w : /\ Entry(w) # None
                                          /\ Entry(w).score >= MASTER_THRESHOLD * Scale)
    IN  IF LevelOpen(mastered, words) /\ not_attempted # <<>>
        THEN [level     |-> level.name,
              recommend |-> NewWord(not_attempted).text,
              reason    |-> "New word not attempted yet"]
        ELSE IF LevelOpen(mastered, words) /\ unmastered # <<>>
        THEN LET worst == WorstWord(unmastered, progress_entries)
             IN  [level     |-> level.name,
                  recommend |-> worst.text,
                  reason    |-> "Lowest performing word",
                  score     |-> Entry(worst).score]
        ELSE BackendRecommendFrom(Tail(levels), user_id)

backend_recommend_next_word(user_id) ==
    BackendRecommendFrom(OrderById(level_rows), user_id)

\* GET /progress/{user_id}/recommend of backend/app/routes/progress.py
backend_recommend_next(user_id) ==
    /\ \A s \in Sessions : sess[s] = Idle
    /\ response' = backend_recommend_next_word(user_id)
    /\ UNCHANGED <<curriculum, request, user_progress, learning_rows, sess, calls>>

\* a Python function that ends without a return statement returns None
ReturnsNone == [returned |-> "None"]

\* adaptive_next_word of backend/app/services/progress_service.py: after
\* level_words is built the function ends
adaptive_next_word(user_id, level_name) ==
    IF LevelByName(level_name) = None THEN LevelNotFound ELSE ReturnsNone

\* GET /progress/{user_id}/levels/{level}/adaptive: the dictionary is
\* returned as it is
adaptive_route(user_id, level) ==
    /\ \A s \in Sessions : sess[s] = Idle
    /\ response' = adaptive_next_word(user_id, level)
    /\ UNCHANGED <<curriculum, request, user_progress, learning_rows, sess, calls>>

----------------------------------------------------------------------------
(* get_next_adaptive_word of app/services and of backend/app/services *)

\* What load_levels() reads from app/data/levels.json, level name to word
\* texts: a level of two words, a level of five, and a level whose word
\* has not been stored in the words table.
LevelsJson ==
    [A |-> <<"cat", "dog">>,
     C |-> <<"sun", "pen", "hat", "map", "jar">>,
     Z |-> <<"zzz">>]

\* data.get(level, [])
get_words_for_level(level) ==
    IF level \in DOMAIN LevelsJson THEN LevelsJson[level] ELSE <<>>

\* Priorities are floats built from score / 100, penalty_score and
\* moving_avg_score / 100 with the weights 0.5, 0.3 and 0.2; they are held
\* as integers in units of 1 / PriorityScale.
PriorityScale == 100000

\* (1 - score / 100) * 0.5 + penalty_score * 0.3
\*     + (1 - moving_avg_score / 100) * 0.2
WeightedScore(p) ==
    5 * (100 * Scale - p.score) + 3000 * p.penalty_score
        + 2 * (100 * Scale - p.moving_avg_score)

\* the 10 added to the weighted score of a word with mastered == "yes"
MasteredPush(p) == IF p.mastered = "yes" THEN 10 * PriorityScale ELSE 0

\* "weak" if p.score < 60 else "medium"
Reason(p) == IF p.score < LOW_SCORE * Scale THEN "weak" ELSE "medium"

\* the dictionary appended to ranked for the word w, p being
\* progress_map.get(w.id) (app/services)
Ranked(w, p) ==
    IF p = None
    THEN [word     |-> w.text,
          priority |-> 1 * PriorityScale,
          reason   |-> "not_attempted",
          score    |-> 0]
    ELSE [word       |-> w.text,
          priority   |-> WeightedScore(p) + MasteredPush(p),
          reason     |-> Reason(p),
          score      |-> p.score,
          attempts   |-> p.attempts,
          penalty    |-> p.penalty_score,
          moving_avg |-> p.moving_avg_score]

\* the same of backend/app/services: priority 0.1 for a new word
BackendRanked(w, p) ==
    IF p = None
    THEN [word     |-> w.text,
          priority |-> PriorityScale \div 10,
          reason   |-> "not_attempted",
          score    |-> None,
          attempts |-> 0]
    ELSE [word     |-> w.text,
          priority |-> WeightedScore(p) + MasteredPush(p),
          reason   |-> Reason(p),
          score    |-> p.score,
          attempts |-> p.attempts]

\* sorted(ranked, key=lambda x: x["priority"]): a stable sort, here by
\* insertion behind the entries whose priority is not greater
RECURSIVE InsertByPriority(_, _)
InsertByPriority(sorted, entry) ==
    IF sorted = <<>> THEN <<entry>>
    ELSE IF entry.priority < Head(sorted).priority THEN <<entry>> \o sorted
         ELSE <<Head(sorted)>> \o InsertByPriority(Tail(sorted), entry)

RECURSIVE SortByPriority(_)
SortByPriority(ranked) ==
    IF ranked = <<>> THEN <<>>
    ELSE InsertByPriority(SortByPriority(SubSeq(ranked, 1, Len(ranked) - 1)),
                          ranked[Len(ranked)])

\* sum(1 for r in progress_entries if r.mastered == "yes")
MasteredCount(progress_entries) ==
    Cardinality({k \in 1..Len(progress_entries) :
                    progress_entries[k].mastered = "yes"})

LevelUpAllMastered(mastered_count, total_words) ==
    mastered_count >= total_words

\* mastered_count >= (0.8 * total_words)
LevelUp(mastered_count, total_words) ==
    10 * mastered_count >= 8 * total_words

\* mastered_count >= MASTER_THRESHOLD / 100 * total
BackendLevelUp(mastered_count, total) ==
    100 * mastered_count >= MASTER_THRESHOLD * total

\* f"You mastered {level} level!"
YouMastered(level) == <<"You mastered ", level, " level!">>

\* ranked_sorted[0] on an empty list raises IndexError
IndexError == [raised |-> "IndexError"]

get_next_adaptive_word(user_id, level) ==
    LET level_words == get_words_for_level(level)
        word_objs == SelectSeq(word_rows,
                               LAMBDA w : w.text \in SeqToSet(level_words))
        word_ids == {word_objs[k].id : k \in 1..Len(word_objs)}
        progress_entries == ProgressEntries(user_id, word_ids)
        ranked == [k \in 1..Len(word_objs) |->
                      Ranked(word_objs[k],
                             ProgressMapGet(progress_entries, word_objs[k].id))]
        ranked_sorted == SortByPriority(ranked)
        mastered_count == MasteredCount(progress_entries)
        total_words == Len(word_objs)
    IN  IF level_words = <<>> THEN [error |-> "No words found in level"]
        ELSE IF LevelUp(mastered_count, total_words)
        THEN [status   |-> "level_complete",
              message  |-> YouMastered(level),
              mastered |-> mastered_count,
              total    |-> total_words]
        ELSE IF ranked_sorted = <<>> THEN IndexError
        ELSE [status    |-> "practice",
              next_word |-> ranked_sorted[1].word,
              reason    |-> ranked_sorted[1].reason,
              score     |-> ranked_sorted[1].score,
              attempts  |-> IF "attempts" \in DOMAIN ranked_sorted[1]
                            THEN ranked_sorted[1].attempts ELSE 0,
              priority  |-> ranked_sorted[1].priority]

backend_get_next_adaptive_word(user_id, level) ==
    LET level_words == get_words_for_level(level)
        word_objs == SelectSeq(word_rows,
                               LAMBDA w : w.text \in SeqToSet(level_words))
        word_ids == {word_objs[k].id : k \in 1..Len(word_objs)}
        progress_entries == ProgressEntries(user_id, word_ids)
        ranked == [k \in 1..Len(word_objs) |->
                      BackendRanked(word_objs[k],
                             ProgressMapGet(progress_entries, word_objs[k].id))]
        ranked_sorted == SortByPriority(ranked)
        mastered_count == MasteredCount(progress_entries)
        total == Len(word_objs)
        choice == ranked_sorted[1]
    IN  IF level_words = <<>> THEN [error |-> "No words found in this level"]
        ELSE IF BackendLevelUp(mastered_count, total)
        THEN [status   |-> "level_complete",
              level    |-> level,
              mastered |-> mastered_count,
              total    |-> total,
              message  |-> YouMastered(level)]
        ELSE IF ranked_sorted = <<>> THEN IndexError
        ELSE [status    |-> "practice",
              level     |-> level,
              next_word |-> choice.word,
              reason    |-> choice.reason,
              score     |-> choice.score,
              attempts  |-> choice.attempts,
              priority  |-> choice.priority]

\* a caller asks for the next word of a level
AdaptiveRequest(user_id, level) ==
    [op |-> "get_next_adaptive_word", user_id |-> user_id, level |-> level]

\* get_next_adaptive_word of app/services returns
adaptive_next ==
    /\ request.op = "get_next_adaptive_word"
    /\ response' = get_next_adaptive_word(request.user_id, request.level)
    /\ UNCHANGED <<curriculum, user_progress, learning_rows, sess, calls, request>>

\* GET /adaptive/next of backend/app/routes/adaptive.py: an exception
\* becomes HTTPException(500)
backend_adaptive_next ==
    /\ request.op = "get_next_adaptive_word"
    /\ LET result == backend_get_next_adaptive_word(request.user_id,
                                                    request.level)
       IN  response' = IF result = IndexError
                       THEN [status |-> 500,
                             detail |-> "Adaptive engine error: list index out of range"]
                       ELSE [ok |-> TRUE, result |-> result]
    /\ UNCHANGED <<curriculum, user_progress, learning_rows, sess, calls, request>>

----------------------------------------------------------------------------
(* app/services/phoneme_service.py: compare_token_sequences *)

\* A token is a Python str, held as the sequence of its characters.
Empty == <<>>

K  == <<"K">>
AE == <<"A", "E">>
EH == <<"E", "H">>
T  == <<"T">>

match_score == 2
sub_score == -1
gap_score == -1

Max3(a, b, c) == Max(a, Max(b, c))

\* ptr[0][0], which is never set
NoPtr == [op |-> "None"]

Ptr(op, ni, nj) == [op |-> op, i |-> ni, j |-> nj]

FirstColumnNoPtr(above, i) == [dp |-> above + gap_score, ptr |-> NoPtr]

\* dp[i][0] and ptr[i][0]
FirstColumn(above, i) ==
    [dp |-> above + gap_score, ptr |-> Ptr("up", i - 1, 0)]

\* dp[0][j] and ptr[0][j]
TopRow(left, j) ==
    [dp |-> left + gap_score, ptr |-> Ptr("left", 0, j - 1)]

DiagGainCostlySub(exp_t, spk_t) ==
    IF exp_t = spk_t THEN match_score ELSE sub_score + 2 * gap_score

\* match_score if expected[i - 1] == spoken[j - 1] else sub_score
DiagGain(exp_t, spk_t) == IF exp_t = spk_t THEN match_score ELSE sub_score

BestUpFirst(score_diag, score_up, score_left, i, j) ==
    LET best == Max3(score_diag, score_up, score_left)
    IN  [dp  |-> best,
         ptr |-> IF best = score_up THEN Ptr("up", i - 1, j)
                 ELSE IF best = score_diag THEN Ptr("diag", i - 1, j - 1)
                 ELSE Ptr("left", i, j - 1)]

BestNoLeft(score_diag, score_up, score_left, i, j) ==
    LET best == Max(score_diag, score_up)
    IN  [dp  |-> best,
         ptr |-> IF best = score_diag THEN Ptr("diag", i - 1, j - 1)
                 ELSE Ptr("up", i - 1, j)]

BestDearInsertion(score_diag, score_up, score_left, i, j) ==
    LET best == Max3(score_diag, score_up, score_left + gap_score)
    IN  [dp  |-> best,
         ptr |-> IF best = score_diag THEN Ptr("diag", i - 1, j - 1)
                 ELSE IF best = score_up THEN Ptr("up", i - 1, j)
                 ELSE Ptr("left", i, j - 1)]

\* best = max(...) and the if / elif / else that sets ptr[i][j]
Best(score_diag, score_up, score_left, i, j) ==
    LET best == Max3(score_diag, score_up, score_left)
    IN  [dp  |-> best,
         ptr |-> IF best = score_diag THEN Ptr("diag", i - 1, j - 1)
                 ELSE IF best = score_up THEN Ptr("up", i - 1, j)
                 ELSE Ptr("left", i, j - 1)]

\* cell (i, j) of a table of rows 0..n and columns 0..m, held row by row
CellAt(cells, m, i, j) == cells[i * (m + 1) + j + 1]

\* dp[i][j] and ptr[i][j], from the cells above and to the left
AlignCell(expected, spoken, cells, i, j) ==
    LET m == Len(spoken)
    IN  IF i = 0 /\ j = 0 THEN [dp |-> 0, ptr |-> NoPtr]
        ELSE IF j = 0 THEN FirstColumn(CellAt(cells, m, i - 1, 0).dp, i)
        ELSE IF i = 0 THEN TopRow(CellAt(cells, m, 0, j - 1).dp, j)
        ELSE Best(CellAt(cells, m, i - 1, j - 1).dp
                      + DiagGain(expected[i], spoken[j]),
                  CellAt(cells, m, i - 1, j).dp + gap_score,
                  CellAt(cells, m, i, j - 1).dp + gap_score,
                  i, j)

\* the three fill loops: every cell is computed from cells filled before it
RECURSIVE FillTable(_, _, _)
FillTable(expected, spoken, cells) ==
    LET m == Len(spoken)
        k == Len(cells)
    IN  IF k = (Len(expected) + 1) * (m + 1) THEN cells
        ELSE FillTable(expected, spoken,
                 Append(cells, AlignCell(expected, spoken, cells,
                                         k \div (m + 1), k % (m + 1))))

AlignTable(expected, spoken) == FillTable(expected, spoken, <<>>)

\* the tuple the while loop appends for the pointer p
AlignmentEntry(expected, spoken, p) ==
    IF p.op = "diag"
    THEN [expected |-> expected[p.i + 1],
          spoken   |-> spoken[p.j + 1],
          op       |-> IF expected[p.i + 1] = spoken[p.j + 1]
                       THEN "equal" ELSE "substitution"]
    ELSE IF p.op = "up"
    THEN [expected |-> expected[p.i + 1], spoken |-> Empty, op |-> "deletion"]
    ELSE [expected |-> Empty, spoken |-> spoken[p.j + 1], op |-> "insertion"]

\* the while loop from (i, j) followed by alignment.reverse()
RECURSIVE Backtrace(_, _, _, _, _)
Backtrace(expected, spoken, table, i, j) ==
    IF ~(i > 0 \/ j > 0) THEN <<>>
    ELSE LET p == CellAt(table, Len(spoken), i, j).ptr
         IN  IF p = NoPtr THEN <<>>
             ELSE Append(Backtrace(expected, spoken, table, p.i, p.j),
                         AlignmentEntry(expected, spoken, p))

CountOp(alignment, op) ==
    Cardinality({k \in 1..Len(alignment) : alignment[k].op = op})

PhonemeScoreUnscaled(matches, total) ==
    IF total > 0 THEN RoundDiv(matches * Scale, total) ELSE 0

\* round((matches / total) * 100, 2) if total > 0 else 0.0
PhonemeScore(matches, total) ==
    IF total > 0 THEN RoundDiv(matches * 100 * Scale, total) ELSE 0

compare_token_sequences(expected, spoken) ==
    LET table == AlignTable(expected, spoken)
        alignment == Backtrace(expected, spoken, table,
                               Len(expected), Len(spoken))
    IN  [alignment     |-> alignment,
         phoneme_score |-> PhonemeScore(CountOp(alignment, "equal"),
                                        Len(alignment))]

\* a caller hands over two token lists
CompareRequest(expected, spoken) ==
    [op |-> "compare_token_sequences", expected |-> expected, spoken |-> spoken]

\* the call returns
compare ==
    /\ request.op = "compare_token_sequences"
    /\ response = [status |-> 0]
    /\ response' = compare_token_sequences(request.expected, request.spoken)
    /\ UNCHANGED <<curriculum, user_progress, learning_rows, sess, calls, request>>

----------------------------------------------------------------------------
(* app/services/phoneme_service.py: analyze_phonemes_for_audio *)

\* str.lower and str.upper on the characters that occur; every other
\* character (digits, blank, punctuation) is left as it is
LowerCase == <<"a", "c", "e", "h", "k", "t">>
UpperCase == <<"A", "C", "E", "H", "K", "T">>

UpperChar(c) ==
    IF \E k \in 1..Len(LowerCase) : LowerCase[k] = c
    THEN UpperCase[CHOOSE k \in 1..Len(LowerCase) : LowerCase[k] = c]
    ELSE c

LowerChar(c) ==
    IF \E k \in 1..Len(UpperCase) : UpperCase[k] = c
    THEN LowerCase[CHOOSE k \in 1..Len(UpperCase) : UpperCase[k] = c]
    ELSE c

Upper(str) == [k \in 1..Len(str) |-> UpperChar(str[k])]
Lower(str) == [k \in 1..Len(str) |-> LowerChar(str[k])]

IsDigit(c) == c \in {"0", "1", "2", "3", "4", "5", "6", "7", "8", "9"}

IsSpace(c) == c = " "

\* str.replace(ch, "")
Remove(str, ch) == SelectSeq(str, LAMBDA c : c # ch)

\* str.strip()
RECURSIVE Strip(_)
Strip(str) ==
    IF str = <<>> THEN <<>>
    ELSE IF IsSpace(Head(str)) THEN Strip(Tail(str))
    ELSE IF IsSpace(str[Len(str)]) THEN Strip(SubSeq(str, 1, Len(str) - 1))
    ELSE str

\* str.split(): the maximal runs of characters that are not whitespace;
\* `word` is the run being read
RECURSIVE SplitFrom(_, _)
SplitFrom(str, word) ==
    IF str = <<>> THEN (IF word = <<>> THEN <<>> ELSE <<word>>)
    ELSE IF IsSpace(Head(str))
    THEN (IF word = <<>> THEN <<>> ELSE <<word>>) \o SplitFrom(Tail(str), <<>>)
    ELSE SplitFrom(Tail(str), Append(word, Head(str)))

Split(str) == SplitFrom(str, <<>>)

\* pronouncing.phones_for_word: the CMUdict pronunciations of a word, none
\* for a word CMUdict does not list
phones_for_word(word) ==
    IF word = <<"c", "a", "t">> THEN << <<"K", " ", "A", "E", "1", " ", "T">> >>
    ELSE IF word = <<"a">> THEN << <<"A", "H", "0">>, <<"E", "Y", "1">> >>
    ELSE <<>>

text_to_arpabet(word) ==
    LET w == Strip(Lower(word))
        phones == phones_for_word(w)
    IN  IF phones = <<>> THEN <<w>> ELSE Split(phones[1])

simple_str_phoneme_mapping(phonemes) ==
    [k \in 1..Len(phonemes) |->
        Upper(SelectSeq(phonemes[k], LAMBDA c : ~IsDigit(c)))]

\* [w.strip() for w in expected_text.replace("?", "").replace("!", "").split()]
ExpectedWords(expected_text) ==
    LET words == Split(Remove(Remove(expected_text, "?"), "!"))
    IN  [k \in 1..Len(words) |-> Strip(words[k])]

RECURSIVE Flatten(_)
Flatten(lists) ==
    IF lists = <<>> THEN <<>> ELSE Head(lists) \o Flatten(Tail(lists))

\* (start, end) of each word in the flat expected list
RECURSIVE WordBoundaries(_, _)
WordBoundaries(lists, idx) ==
    IF lists = <<>> THEN <<>>
    ELSE <<[start |-> idx, end |-> idx + Len(Head(lists))]>>
             \o WordBoundaries(Tail(lists), idx + Len(Head(lists)))

\* the per_expected list: an entry with exp_tok == "" is taken for an insertion
PerExpected(aligned_list) ==
    [k \in 1..Len(aligned_list) |->
        IF aligned_list[k].expected # Empty THEN aligned_list[k]
        ELSE [expected |-> Empty, spoken |-> aligned_list[k].spoken,
              op |-> "insertion"]]

\* round((matched_count / total_count) * 100, 2) if total_count > 0 else 0.0
WordScore(matched_count, total_count) ==
    IF total_count > 0 THEN RoundDiv(matched_count * 100 * Scale, total_count)
    ELSE 0

\* one pass of the inner scan: exp_index counts the entries whose exp_tok
\* is not "", and those with start <= exp_index < end belong to the word
WordMetrics(word_text, boundary, per_expected) ==
    LET counted == SelectSeq(per_expected, LAMBDA e : e.expected # Empty)
        inside == {k \in 1..Len(counted) :
                      boundary.start <= k - 1 /\ k - 1 < boundary.end}
        own == SelectSeq([k \in 1..Len(counted) |-> [at |-> k, entry |-> counted[k]]],
                         LAMBDA x : x.at \in inside)
        missed == SelectSeq(own, LAMBDA x : x.entry.op # "equal")
        matched_count == Len(own) - Len(missed)
    IN  [word          |-> word_text,
         phoneme_count |-> Len(own),
         matched       |-> matched_count,
         score         |-> WordScore(matched_count, Len(own)),
         mistakes      |-> [k \in 1..Len(missed) |->
                               [type     |-> missed[k].entry.op,
                                expected |-> missed[k].entry.expected,
                                spoken   |-> missed[k].entry.spoken]]]

\* the dictionary returned for the expected text and the tokens that
\* audio_to_phonemes decodes from the recording
analyze_phonemes_for_audio(expected_text, decoded) ==
    LET expected_words == ExpectedWords(expected_text)
        expected_word_phonemes ==
            [k \in 1..Len(expected_words) |->
                simple_str_phoneme_mapping(text_to_arpabet(expected_words[k]))]
        spoken_phonemes == simple_str_phoneme_mapping(decoded)
        expected_flat == Flatten(expected_word_phonemes)
        word_boundaries == WordBoundaries(expected_word_phonemes, 0)
        align_res == compare_token_sequences(expected_flat, spoken_phonemes)
        per_expected == PerExpected(align_res.alignment)
    IN  [expected               |-> expected_text,
         spoken_phonemes        |-> spoken_phonemes,
         expected_phonemes_flat |-> expected_flat,
         alignment              |-> align_res.alignment,
         overall_phoneme_score  |-> align_res.phoneme_score,
         word_breakdown         |->
             [k \in 1..Len(word_boundaries) |->
                 WordMetrics(expected_words[k], word_boundaries[k], per_expected)]]

\* POST /learn/phoneme/analyze without user_id: record is bool(None), so
\* nothing is recorded
AnalyzeRequest(expected_text, decoded) ==
    [op            |-> "analyze_phonemes_for_audio",
     expected_text |-> expected_text,
     decoded       |-> decoded,
     user_id       |-> "None",
     record        |-> FALSE]

analyze ==
    /\ request.op = "analyze_phonemes_for_audio"
    /\ response = [status |-> 0]
    /\ response' = analyze_phonemes_for_audio(request.expected_text, request.decoded)
    /\ UNCHANGED <<curriculum, user_progress, learning_rows, sess, calls, request>>

----------------------------------------------------------------------------
(* app/services/stt_service.py: compare_words *)

\* the length of the longest common run of a and b that starts at a[i] and
\* b[j] and stays within a[..ahi] and b[..bhi] (positions count from 1)
RECURSIVE RunLength(_, _, _, _, _, _)
RunLength(a, i, ahi, b, j, bhi) ==
    IF i > ahi \/ j > bhi THEN 0
    ELSE IF a[i] # b[j] THEN 0
    ELSE 1 + RunLength(a, i + 1, ahi, b, j + 1, bhi)

\* SequenceMatcher.find_longest_match(alo, ahi, blo, bhi) without junk: of
\* the longest matching blocks the one that starts earliest in a, and of
\* those the one that starts earliest in b
find_longest_match(a, alo, ahi, b, blo, bhi) ==
    LET Size(i, j) == RunLength(a, i, ahi, b, j, bhi)
        starts == (alo..ahi) \X (blo..bhi)
        best == CHOOSE x \in starts :
                    \A y \in starts :
                        \/ Size(x[1], x[2]) > Size(y[1], y[2])
                        \/ /\ Size(x[1], x[2]) = Size(y[1], y[2])
                           /\ \/ x[1] < y[1]
                              \/ x[1] = y[1] /\ x[2] <= y[2]
    IN  [i |-> best[1], j |-> best[2], size |-> Size(best[1], best[2])]

\* the characters in the matching blocks of get_matching_blocks(): the
\* longest match of a[alo..ahi] and b[blo..bhi], then the same to the left
\* and to the right of it
RECURSIVE MatchedChars(_, _, _, _, _, _)
MatchedChars(a, alo, ahi, b, blo, bhi) ==
    IF alo > ahi \/ blo > bhi THEN 0
    ELSE LET x == find_longest_match(a, alo, ahi, b, blo, bhi)
         IN  IF x.size = 0 THEN 0
             ELSE x.size
                  + MatchedChars(a, alo, x.i - 1, b, blo, x.j - 1)
                  + MatchedChars(a, x.i + x.size, ahi, b, x.j + x.size, bhi)

\* round(sm.ratio() * 100, 2) in hundredths, ratio() being
\* 2.0 * matches / (len(a) + len(b)), and 1.0 for two empty strings
SimilarityScore(a, b) ==
    IF Len(a) + Len(b) = 0 THEN 100 * Scale
    ELSE RoundDiv(2 * MatchedChars(a, 1, Len(a), b, 1, Len(b)) * 100 * Scale,
                  Len(a) + Len(b))

\* the if / elif / else on score; "None" is Python's None
Mistake(score, spoken_clean, expected_clean) ==
    IF score > 80 * Scale THEN "None"
    ELSE IF score > 60 * Scale THEN "near_miss"
    ELSE IF Len(spoken_clean) > Len(expected_clean) THEN "extra_pronunciation"
    ELSE "mispronounced"

\* the tuple (score, mistake)
compare_words(expected, spoken) ==
    LET expected_clean == Strip(Lower(expected))
        spoken_clean == Strip(Lower(spoken))
        score == SimilarityScore(expected_clean, spoken_clean)
    IN  IF expected_clean = spoken_clean THEN <<100 * Scale, "None">>
        ELSE IF spoken_clean = <<>> THEN <<0, "missing_word">>
        ELSE <<score, Mistake(score, spoken_clean, expected_clean)>>

\* _word_level_analysis hands over an expected and a recognized word
WordsRequest(expected, spoken) ==
    [op |-> "compare_words", expected |-> expected, spoken |-> spoken]

\* the call returns
call_compare_words ==
    /\ request.op = "compare_words"
    /\ response = [status |-> 0]
    /\ LET result == compare_words(request.expected, request.spoken)
       IN  response' = [word_score |-> result[1], mistake |-> result[2]]
    /\ UNCHANGED <<curriculum, user_progress, learning_rows, sess, calls, request>>

----------------------------------------------------------------------------

\* The curriculum: level A (id 1) with the words cat and dog, level B
\* (id 2) without words, level C (id 3) with the word sun; the levels table
\* does not hold its rows in id order.  Another learner (user 2) has one
\* attempt of 90 on cat on record.  User 1 starts either with no attempt on
\* record or with the attempts 50, 60, 90 on cat and 50, 60, 60 on dog (the
\* next attempts then meet both kinds of rounding tie), and has a fresh
\* app.learning LevelWord record for cat.
Init ==
    /\ word_rows = <<[id |-> 1, text |-> "cat"],
                     [id |-> 2, text |-> "dog"],
                     [id |-> 3, text |-> "sun"]>>
    /\ level_rows = <<[id |-> 3, name |-> "C"],
                      [id |-> 1, name |-> "A"],
                      [id |-> 2, name |-> "B"]>>
    /\ level_word_rows = <<[id |-> 1, level_id |-> 1, word_id |-> 1],
                           [id |-> 2, level_id |-> 1, word_id |-> 2],
                           [id |-> 3, level_id |-> 3, word_id |-> 3]>>
    /\ user_progress \in
           {<<AfterAttempts(1, 2, 1, <<90>>)>>,
            <<AfterAttempts(1, 2, 1, <<90>>),
              AfterAttempts(2, 1, 1, <<50, 60, 90>>),
              AfterAttempts(3, 1, 2, <<50, 60, 60>>)>>}
    /\ learning_rows = <<[id                |-> 1,
                          user_id           |-> 1,
                          word_id           |-> 1,
                          level_id          |-> 1,
                          attempts          |-> 0,
                          correct_attempts  |-> 0,
                          mastery_score     |-> Zero,
                          is_mastered       |-> FALSE,
                          last_similarity   |-> 0,
                          last_practiced_at |-> "None"]>>
    /\ sess = [s \in Sessions |-> Idle]
    /\ response = [status |-> 0]
    /\ calls = 0
    /\ request = NoRequest

Next ==
    \/ \E u \in Users, w \in Texts, sc \in Scores, t \in Times :
          RecordAttempt(u, w, sc, t)
    \/ \E u \in Users : recommend_next(u)

Spec == Init /\ [][Next]_vars

\* the progress service together with the app.learning service
LearnNext ==
    \/ \E u \in Users, w \in Texts, sc \in Scores, t \in Times :
          RecordAttempt(u, w, sc, t)
    \/ \E i \in 1..Len(learning_rows), c \in BOOLEAN, sim \in Similarities :
          update_level_word(i, c, sim)
    \/ \E i \in 1..Len(learning_rows) : reset_level_word(i)

LearnSpec == Init /\ [][LearnNext]_vars

ConcNext ==
    \/ \E s \in Sessions, u \in Users, w \in Texts, sc \in Scores, t \in Times :
          Query(s, u, w, sc, t)
    \/ \E s \in Sessions : Commit(s)

ConcSpec == Init /\ [][ConcNext]_vars

\* Both variants of the progress routes, on the curriculum of Init or on a
\* database into which no level has been loaded yet (words and earlier
\* attempts are there, levels and level links are not).
VariantInit ==
    /\ word_rows = <<[id |-> 1, text |-> "cat"],
                     [id |-> 2, text |-> "dog"],
                     [id |-> 3, text |-> "sun"]>>
    /\ \/ /\ level_rows = <<>>
          /\ level_word_rows = <<>>
       \/ /\ level_rows = <<[id |-> 3, name |-> "C"],
                            [id |-> 1, name |-> "A"],
                            [id |-> 2, name |-> "B"]>>
          /\ level_word_rows = <<[id |-> 1, level_id |-> 1, word_id |-> 1],
                                 [id |-> 2, level_id |-> 1, word_id |-> 2],
                                 [id |-> 3, level_id |-> 3, word_id |-> 3]>>
    /\ user_progress \in
           {<<AfterAttempts(1, 2, 1, <<90>>)>>,
            <<AfterAttempts(1, 2, 1, <<90>>),
              AfterAttempts(2, 1, 1, <<50, 60, 90>>),
              AfterAttempts(3, 1, 2, <<50, 60, 60>>)>>}
    /\ learning_rows = <<>>
    /\ sess = [s \in Sessions |-> Idle]
    /\ response = [status |-> 0]
    /\ calls = 0
    /\ request = NoRequest

VariantNext ==
    \/ \E u \in Users, w \in Texts, sc \in Scores, t \in Times :
          RecordAttempt(u, w, sc, t)
    \/ \E u \in Users : recommend_next(u)
    \/ \E u \in Users : backend_recommend_next(u)
    \/ \E u \in Users, name \in LevelNames : level_status(u, name)
    \/ \E u \in Users, name \in LevelNames : adaptive_route(u, name)

VariantSpec == VariantInit /\ [][VariantNext]_vars

\* all token lists of up to MaxLen phonemes
TokenLists == UNION {[1..n -> Phonemes] : n \in 0..MaxLen}

\* compare_token_sequences on its own: the stored tables are those of Init
\* and the arguments are any two token lists
AlignInit ==
    /\ word_rows = <<>>
    /\ level_rows = <<>>
    /\ level_word_rows = <<>>
    /\ user_progress = <<>>
    /\ learning_rows = <<>>
    /\ sess = [s \in Sessions |-> Idle]
    /\ response = [status |-> 0]
    /\ calls = 0
    /\ \E expected \in TokenLists, spoken \in TokenLists :
          request = CompareRequest(expected, spoken)

AlignNext == compare

AlignSpec == AlignInit /\ [][AlignNext]_vars

Rep(t, times) == [k \in 1..times |-> t]

\* three phonemes of which the first or the second is held: it comes up to
\* MaxHold times in a row
HeldLists ==
    {Rep(w[1], h[1]) \o Rep(w[2], h[2]) \o <<w[3]>> :
        w \in [1..3 -> HeldPhonemes],
        h \in ({1} \X (1..MaxHold)) \cup ((1..MaxHold) \X {1})}

\* compare_token_sequences on two token lists with a held sound
HeldInit ==
    /\ word_rows = <<>>
    /\ level_rows = <<>>
    /\ level_word_rows = <<>>
    /\ user_progress = <<>>
    /\ learning_rows = <<>>
    /\ sess = [s \in Sessions |-> Idle]
    /\ response = [status |-> 0]
    /\ calls = 0
    /\ \E expected \in HeldLists, spoken \in HeldLists :
          request = CompareRequest(expected, spoken)

HeldNext == compare

HeldSpec == HeldInit /\ [][HeldNext]_vars

\* words written one after the other with a blank in between
RECURSIVE JoinWords(_)
JoinWords(words) ==
    IF words = <<>> THEN <<>>
    ELSE IF Len(words) = 1 THEN words[1]
    ELSE words[1] \o <<" ">> \o JoinWords(Tail(words))

ExpectedTexts ==
    {JoinWords(ws) : ws \in UNION {[1..n -> Vocabulary] : n \in 0..MaxWords}}

DecodedLists == UNION {[1..n -> DecodedTokens] : n \in 0..MaxDecoded}

\* analyze_phonemes_for_audio for any expected text and any decoded tokens
AnalyzeInit ==
    /\ word_rows = <<>>
    /\ level_rows = <<>>
    /\ level_word_rows = <<>>
    /\ user_progress = <<>>
    /\ learning_rows = <<>>
    /\ sess = [s \in Sessions |-> Idle]
    /\ response = [status |-> 0]
    /\ calls = 0
    /\ \E expected_text \in ExpectedTexts, decoded \in DecodedLists :
          request = AnalyzeRequest(expected_text, decoded)

AnalyzeNext == analyze

AnalyzeSpec == AnalyzeInit /\ [][AnalyzeNext]_vars

\* The words table of a database in which the words of levels A and C have
\* been stored and the word of level Z has not.
AdaptWords ==
    <<[id |-> 1, text |-> "cat"], [id |-> 2, text |-> "dog"],
      [id |-> 3, text |-> "sun"], [id |-> 4, text |-> "pen"],
      [id |-> 5, text |-> "hat"], [id |-> 6, text |-> "map"],
      [id |-> 7, text |-> "jar"]>>

\* the scores of the attempts a word has had: none, one that mastered
\* it, two that end at 60 and at 70 with the same moving average and
\* penalty, or a run of 1, 2 or MaxPoor attempts at 50
WordHistories ==
    {<<>>, <<90>>, <<60, 80, 60>>, <<60, 70>>}
        \cup {Rep(50, n) : n \in {1, 2, MaxPoor}}

\* the same for the words of the large level: not attempted or mastered
LargeLevelHistories == {<<>>, <<90>>}

\* the record p after further attempts with the scores of `history`, each
\* served on its own and with time_spent 5; the history is taken in two
\* halves, and the record of the first half is worked out (every attempt
\* of it has been counted) before the second half starts from it
RECURSIVE Attempts(_, _)
Attempts(p, history) ==
    IF history = <<>> THEN p
    ELSE IF Len(history) = 1 THEN UpdatedProgress(p, history[1], 5)
    ELSE LET half == Len(history) \div 2
             first == Attempts(p, SubSeq(history, 1, half))
         IN  IF first.attempts = p.attempts + half
             THEN Attempts(first, SubSeq(history, half + 1, Len(history)))
             ELSE first

\* the record of a learner whose attempts on a word had the scores of
\* `history`, which may be long
AfterHistory(id, user_id, word_id, history) ==
    Attempts(NewProgress(id, user_id, word_id, history[1], 5), Tail(history))

\* the user_progress table after user 1 has made the attempts of
\* histories[word_id] on every word, word after word; `rows` is the table
\* so far
RECURSIVE SeedProgress(_, _, _)
SeedProgress(histories, word_id, rows) ==
    IF word_id > Len(histories) THEN rows
    ELSE SeedProgress(histories, word_id + 1,
             IF histories[word_id] = <<>> THEN rows
             ELSE Append(rows, AfterHistory(Len(rows) + 1, 1, word_id,
                                            histories[word_id])))

\* get_next_adaptive_word on its own, for any level name and a learner
\* with any of the histories on each word; another learner (user 2) has
\* mastered cat; no level has been loaded into the level tables
AdaptInit ==
    /\ word_rows = AdaptWords
    /\ level_rows = <<>>
    /\ level_word_rows = <<>>
    /\ \E small \in [1..2 -> WordHistories], large \in [1..5 -> LargeLevelHistories] :
          user_progress = SeedProgress(small \o large, 1,
                                       <<AfterAttempts(1, 2, 1, <<90>>)>>)
    /\ learning_rows = <<>>
    /\ sess = [s \in Sessions |-> Idle]
    /\ response = [status |-> 0]
    /\ calls = 0
    /\ \E u \in Users, level \in LevelNames :
          request = AdaptiveRequest(u, level)

AdaptNext ==
    \/ adaptive_next
    \/ backend_adaptive_next

AdaptSpec == AdaptInit /\ [][AdaptNext]_vars

\* all words compare_words is tried on
WordStrings ==
    UNION {[1..n -> WordChars] : n \in 0..MaxWordLen} \cup SpecialWords

\* compare_words on its own, for any expected and any observed word
WordInit ==
    /\ word_rows = <<>>
    /\ level_rows = <<>>
    /\ level_word_rows = <<>>
    /\ user_progress = <<>>
    /\ learning_rows = <<>>
    /\ sess = [s \in Sessions |-> Idle]
    /\ response = [status |-> 0]
    /\ calls = 0
    /\ \E expected \in WordStrings, spoken \in WordStrings :
          request = WordsRequest(expected, spoken)

WordNext == call_compare_words

WordSpec == WordInit /\ [][WordNext]_vars

\* A learner who asks for the next word and practises the word returned,
\* again and again.  The learner keeps asking, and does not fail a
\* recommended word for ever: a recommendation is time and again followed
\* by an attempt that reaches MASTER_THRESHOLD.
GoodScores == {sc \in Scores : sc >= MASTER_THRESHOLD}

Ask == \E u \in Users : recommend_next(u)

PractiseWell == \E u \in Users, sc \in GoodScores, t \in Times : PractiseWord(u, sc, t)

PractiseNext ==
    \/ Ask
    \/ \E u \in Users, sc \in Scores, t \in Times : PractiseWord(u, sc, t)

PractiseSpec ==
    Init /\ [][PractiseNext]_vars /\ WF_vars(Ask) /\ SF_vars(PractiseWell)

\* Every call that reads or writes the progress records, on the tables of
\* Init: record_attempt, recommend_next_word, get_level_status and both
\* variants of get_next_adaptive_word, the latter asked for any level name
FrameInit ==
    /\ word_rows = <<[id |-> 1, text |-> "cat"],
                     [id |-> 2, text |-> "dog"],
                     [id |-> 3, text |-> "sun"]>>
    /\ level_rows = <<[id |-> 3, name |-> "C"],
                      [id |-> 1, name |-> "A"],
                      [id |-> 2, name |-> "B"]>>
    /\ level_word_rows = <<[id |-> 1, level_id |-> 1, word_id |-> 1],
                           [id |-> 2, level_id |-> 1, word_id |-> 2],
                           [id |-> 3, level_id |-> 3, word_id |-> 3]>>
    /\ user_progress \in
           {<<AfterAttempts(1, 2, 1, <<90>>)>>,
            <<AfterAttempts(1, 2, 1, <<90>>),
              AfterAttempts(2, 1, 1, <<50, 60, 90>>),
              AfterAttempts(3, 1, 2, <<50, 60, 60>>)>>}
    /\ learning_rows = <<[id                |-> 1,
                          user_id           |-> 1,
                          word_id           |-> 1,
                          level_id          |-> 1,
                          attempts          |-> 0,
                          correct_attempts  |-> 0,
                          mastery_score     |-> Zero,
                          is_mastered       |-> FALSE,
                          last_similarity   |-> 0,
                          last_practiced_at |-> "None"]>>
    /\ sess = [s \in Sessions |-> Idle]
    /\ response = [status |-> 0]
    /\ calls = 0
    /\ \E u \in Users, level \in LevelNames :
          request = AdaptiveRequest(u, level)

\* one score below and one above MASTER_THRESHOLD
FrameScores == {sc \in Scores : sc \in {50, 90}}

FrameNext ==
    \/ \E u \in Users, w \in Texts, sc \in FrameScores, t \in Times :
          RecordAttempt(u, w, sc, t)
    \/ \E u \in Users : recommend_next(u)
    \/ \E u \in Users, name \in LevelNames : level_status(u, name)
    \/ adaptive_next
    \/ backend_adaptive_next

FrameSpec == FrameInit /\ [][FrameNext]_vars

----------------------------------------------------------------------------
(* Properties *)

Known(word) == \E i \in 1..Len(word_rows) : word_rows[i].text = word

WordId(word) == (CHOOSE w \in SeqToSet(word_rows) : w.text = word).id

HasRecord(user_id, word_id) ==
    \E p \in SeqToSet(user_progress) : p.user_id = user_id /\ p.word_id = word_id

RecordOf(user_id, word_id) ==
    CHOOSE p \in SeqToSet(user_progress) : p.user_id = user_id /\ p.word_id = word_id

\* C1: when a record_attempt that found an existing record commits, the
\* stored attempts of that record go up by one, whatever another session
\* has committed to it since this call read it (no lost update).
C1_NoLostUpdate ==
    [][\A s \in Sessions :
          (Commit(s) /\ sess[s].progress # None)
          => user_progress'[sess[s].progress.id].attempts
                 = user_progress[sess[s].progress.id].attempts + 1]_vars

\* C2: there is at most one UserProgress row per (user_id, word_id), also
\* when first attempts for a pair run in interleaved sessions.
C2_OneRecordPerPair ==
    \A i, j \in 1..Len(user_progress) :
        (/\ user_progress[i].user_id = user_progress[j].user_id
         /\ user_progress[i].word_id = user_progress[j].word_id) => i = j

\* C3: penalty_score of every progress record is >= 0.
C3_PenaltyNonNegative ==
    \A p \in SeqToSet(user_progress) : p.penalty_score >= 0

\* two attempts of 90: the second one takes 0.2 off a penalty of 0
C3_Witness ==
    \E p \in SeqToSet(user_progress) :
        /\ p.user_id = 1
        /\ p.attempts = 2
        /\ p.score = 9000
        /\ p.moving_avg_score = 9000
        /\ p.penalty_score = 0

\* C4: the first record_attempt for a pair (score sc, time t) adds one record
\* with attempts 1, score sc, moving average sc, streak 0, penalty 0 if
\* sc >= 60 else 0.5, mastered iff sc >= 80, total time t; the other records
\* stay as they are.
C4_FirstAttemptCreates ==
    [][\A u \in Users, w \in Texts, sc \in Scores, t \in Times :
          (/\ RecordAttempt(u, w, sc, t)
           /\ Known(w)
           /\ ~HasRecord(u, WordId(w)))
          => /\ Len(user_progress') = Len(user_progress) + 1
             /\ SubSeq(user_progress', 1, Len(user_progress)) = user_progress
             /\ LET r == user_progress'[Len(user_progress')]
                IN  /\ r.user_id = u
                    /\ r.word_id = WordId(w)
                    /\ r.attempts = 1
                    /\ r.score = 100 * sc
                    /\ r.moving_avg_score = 100 * sc
                    /\ r.streak_score = 0
                    /\ r.penalty_score = (IF sc >= 60 THEN 0 ELSE 5)
                    /\ r.mastered = (IF sc >= 80 THEN "yes" ELSE "no")
                    /\ r.total_time = t]_vars

\* record_attempt(None, 90, 5.0)
C4_Witness ==
    \E p \in SeqToSet(user_progress) :
        /\ p.user_id = 1
        /\ p.attempts = 1
        /\ p.score = 9000
        /\ p.mastered = "yes"
        /\ p.moving_avg_score = 9000
        /\ p.streak_score = 0
        /\ p.penalty_score = 0
        /\ p.total_time = 5

\* C5: record_attempt with score sc and time t on an existing record r gives
\* streak +1 / -1 / unchanged as sc is above / below / equal to r.score,
\* moving average round((r.moving_avg_score + sc) / 2, 2), penalty + 0.5 if
\* sc < 60 else max(0, penalty - 0.2), attempts + 1, score sc and
\* total_time + t; no record is added.
C5_ExistingAttemptUpdates ==
    [][\A u \in Users, w \in Texts, sc \in Scores, t \in Times :
          (/\ RecordAttempt(u, w, sc, t)
           /\ Known(w)
           /\ HasRecord(u, WordId(w)))
          => /\ Len(user_progress') = Len(user_progress)
             /\ LET r == RecordOf(u, WordId(w))
                    n == user_progress'[r.id]
                    twice == r.moving_avg_score + 100 * sc
                IN  /\ n.streak_score =
                          (IF 100 * sc > r.score THEN r.streak_score + 1
                           ELSE IF 100 * sc < r.score THEN r.streak_score - 1
                           ELSE r.streak_score)
                    /\ 2 * n.moving_avg_score - twice \in {-1, 0, 1}
                    /\ (2 * n.moving_avg_score # twice) => n.moving_avg_score % 2 = 0
                    /\ n.penalty_score =
                          (IF sc < 60 THEN r.penalty_score + 5
                           ELSE IF r.penalty_score - 2 > 0 THEN r.penalty_score - 2
                           ELSE 0)
                    /\ n.attempts = r.attempts + 1
                    /\ n.score = 100 * sc
                    /\ n.total_time = r.total_time + t]_vars

\* attempts 50 then 90 on a fresh key
C5_Witness ==
    \E p \in SeqToSet(user_progress) :
        /\ p.user_id = 1
        /\ p.word_id = 2
        /\ p.attempts = 2
        /\ p.score = 9000
        /\ p.streak_score = 1
        /\ p.moving_avg_score = 7000
        /\ p.penalty_score = 3

\* C6: a progress record is mastered ("yes") iff its latest score is >= 80.
C6_MasteredIffThreshold ==
    \A p \in SeqToSet(user_progress) :
        /\ p.mastered \in {"yes", "no"}
        /\ p.mastered = "yes" <=> p.score >= 8000

\* 90 then 50: mastered by the first attempt, unmastered by the second
C6_Witness ==
    \E p \in SeqToSet(user_progress) :
        /\ p.user_id = 1
        /\ p.attempts = 2
        /\ p.score = 5000
        /\ p.moving_avg_score = 7000
        /\ p.streak_score = -1
        /\ p.mastered = "no"

\* C7: no record is deleted or changes its user and word; attempts of a
\* record goes down only at a reset_level_word; a reset leaves attempts 0,
\* mastery score 0, not mastered and no last-practice time; an attempt on a
\* record with attempts 0 gives attempts 1.
C7_AttemptsMonotoneExceptReset ==
    [][/\ Len(user_progress') >= Len(user_progress)
       /\ \A i \in 1..Len(user_progress) :
             /\ user_progress'[i].id = user_progress[i].id
             /\ user_progress'[i].user_id = user_progress[i].user_id
             /\ user_progress'[i].word_id = user_progress[i].word_id
             /\ user_progress'[i].attempts >= user_progress[i].attempts
       /\ Len(learning_rows') = Len(learning_rows)
       /\ \A i \in 1..Len(learning_rows) :
             LET a == learning_rows[i]
                 b == learning_rows'[i]
             IN  /\ b.id = a.id /\ b.user_id = a.user_id /\ b.word_id = a.word_id
                 /\ reset_level_word(i)
                       => /\ b.attempts = 0
                          /\ b.correct_attempts = 0
                          /\ b.mastery_score = <<0, 1>>
                          /\ b.last_similarity = 0
                          /\ b.is_mastered = FALSE
                          /\ b.last_practiced_at = "None"
                 /\ ~reset_level_word(i) => b.attempts >= a.attempts
                 /\ (/\ a.attempts = 0
                     /\ \E c \in BOOLEAN, sim \in Similarities :
                           update_level_word(i, c, sim))
                       => b.attempts = 1]_vars

\* a reset has been served after attempts on both kinds of record
C7_Witness ==
    /\ "by" \in DOMAIN response
    /\ response.by = "reset_level_word"
    /\ response.level_word.attempts = 0
    /\ response.level_word.is_mastered = FALSE
    /\ calls > 1
    /\ \E p \in SeqToSet(user_progress) : p.user_id = 1 /\ p.attempts = 1

\* C8: an attempt with score >= 60 on an existing record leaves a penalty of
\* 0 at 0 and takes 0.2 off a positive penalty, stopping at exactly 0, so
\* that a run of such attempts reaches 0 and stays there; the penalty is
\* never below 0 on the way.
C8_PenaltyDecaysToZero ==
    [][\A u \in Users, w \in Texts, sc \in Scores, t \in Times :
          (/\ RecordAttempt(u, w, sc, t)
           /\ sc >= 60
           /\ Known(w)
           /\ HasRecord(u, WordId(w)))
          => LET old == RecordOf(u, WordId(w)).penalty_score
                 new == user_progress'[RecordOf(u, WordId(w)).id].penalty_score
             IN  /\ new >= 0
                 /\ old = 0 => new = 0
                 /\ old > 0 => new < old /\ (new = 0 \/ new = old - 2)]_vars

\* 50, 60, 90, 90, 90: penalty 0.5, 0.3, 0.1, 0, 0
C8_Witness ==
    \E p \in SeqToSet(user_progress) :
        /\ p.user_id = 1
        /\ p.attempts = 5
        /\ p.moving_avg_score = 8562
        /\ p.streak_score = 2
        /\ p.penalty_score = 0

\* C9: record_attempt for a text with no Word row answers 404 "Word not
\* found" and leaves the progress records as they are.
C9_UnknownWordRejected ==
    [][\A u \in Users, w \in Texts, sc \in Scores, t \in Times :
          (RecordAttempt(u, w, sc, t) /\ ~Known(w))
          => /\ response' = [status |-> 404, detail |-> "Word not found"]
             /\ user_progress' = user_progress]_vars

C9_Witness ==
    /\ response = [status |-> 404, detail |-> "Word not found"]
    /\ \E p \in SeqToSet(user_progress) : p.user_id = 1

LevelOfName(name) == CHOOSE l \in SeqToSet(level_rows) : l.name = name

WordsOfLevel(level_id) ==
    {lw.word_id : lw \in {x \in SeqToSet(level_word_rows) : x.level_id = level_id}}

\* every word of the level has a record of the user with score >= 80
LevelComplete(user_id, level_id) ==
    \A word_id \in WordsOfLevel(level_id) :
        \E p \in SeqToSet(user_progress) :
            /\ p.user_id = user_id
            /\ p.word_id = word_id
            /\ p.score >= 8000

\* C10: a recommended word belongs to the level named with it, and every
\* level with a smaller id is complete (it has no words, or all its words
\* have score >= 80); "all levels mastered" is returned only when every
\* level is complete.
C10_NeverSkipsOpenLevel ==
    \A u \in Users :
        LET r == recommend_next_word(u)
        IN  /\ "recommend" \in DOMAIN r
                => /\ Known(r.recommend)
                   /\ WordId(r.recommend) \in WordsOfLevel(LevelOfName(r.level).id)
                   /\ \A k \in SeqToSet(level_rows) :
                         k.id < LevelOfName(r.level).id => LevelComplete(u, k.id)
            /\ r = AllMastered
                => \A k \in SeqToSet(level_rows) : LevelComplete(u, k.id)

\* the recommendation has moved past level A (mastered) and level B (empty)
C10_Witness ==
    /\ "recommend" \in DOMAIN response
    /\ response.level = "C"
    /\ response.recommend = "sun"

\* the levels that have words of which the user has not mastered all
OpenLevels(user_id) ==
    {k \in SeqToSet(level_rows) :
        WordsOfLevel(k.id) # {} /\ ~LevelComplete(user_id, k.id)}

\* the open level with the smallest id
FirstOpenLevel(user_id) ==
    CHOOSE k \in OpenLevels(user_id) : \A j \in OpenLevels(user_id) : k.id <= j.id

\* place of a word in the stored order of the words table
PositionOf(word_id) == CHOOSE i \in 1..Len(word_rows) : word_rows[i].id = word_id

NewWordsOf(user_id, level_id) ==
    {w \in WordsOfLevel(level_id) : ~HasRecord(user_id, w)}

\* C11: when the first incomplete level has a word without a progress
\* record, the recommendation is the first such word in stored word order,
\* with the level's name and the reason "New word not attempted yet",
\* whatever the scores of the level's attempted words are.
C11_NewWordFirst ==
    \A u \in Users :
        (OpenLevels(u) # {} /\ NewWordsOf(u, FirstOpenLevel(u).id) # {})
        => LET level == FirstOpenLevel(u)
               new == NewWordsOf(u, level.id)
               first == CHOOSE w \in new :
                            \A v \in new : PositionOf(w) <= PositionOf(v)
           IN  recommend_next_word(u) =
                   [status    |-> 200,
                    level     |-> level.name,
                    recommend |-> word_rows[PositionOf(first)].text,
                    reason    |-> "New word not attempted yet"]

\* dog is recommended as new while cat, earlier in the level, has a low score
C11_Witness ==
    /\ "reason" \in DOMAIN response
    /\ response.reason = "New word not attempted yet"
    /\ response.recommend = "dog"
    /\ HasRecord(1, 1)
    /\ RecordOf(1, 1).score = 5000
    /\ ~HasRecord(1, 2)

\* C12: when every word of the first incomplete level has a progress
\* record, the recommendation is the word of that level with score < 80 and
\* the lowest latest score, the earliest in stored word order among equals,
\* with the reason "Lowest score, needs improvement" and that score.
C12_WeakestWord ==
    \A u \in Users :
        (OpenLevels(u) # {} /\ NewWordsOf(u, FirstOpenLevel(u).id) = {})
        => LET level == FirstOpenLevel(u)
               weak == {w \in WordsOfLevel(level.id) : RecordOf(u, w).score < 8000}
               worst == CHOOSE w \in weak :
                           \A v \in weak :
                              \/ RecordOf(u, w).score < RecordOf(u, v).score
                              \/ /\ RecordOf(u, w).score = RecordOf(u, v).score
                                 /\ PositionOf(w) <= PositionOf(v)
           IN  recommend_next_word(u) =
                   [status    |-> 200,
                    level     |-> level.name,
                    recommend |-> word_rows[PositionOf(worst)].text,
                    reason    |-> "Lowest score, needs improvement",
                    score     |-> RecordOf(u, worst).score]

\* cat and dog both stand at 50: cat, stored first, is recommended
C12_Witness ==
    /\ "reason" \in DOMAIN response
    /\ response.reason = "Lowest score, needs improvement"
    /\ response.recommend = "cat"
    /\ response.score = 5000
    /\ HasRecord(1, 2)
    /\ RecordOf(1, 2).score = 5000

\* C13: with at least one level configured, the result is "All levels
\* mastered" exactly when every level that has words has all of them at
\* latest score >= 80; a level without words never holds the learner back.
C13_AllMasteredIff ==
    \A u \in Users :
        level_rows # <<>>
        => (recommend_next_word(u) = AllMastered
               <=> \A k \in SeqToSet(level_rows) :
                      WordsOfLevel(k.id) # {}
                      => \A w \in WordsOfLevel(k.id) :
                            /\ HasRecord(u, w)
                            /\ RecordOf(u, w).score >= 8000)

\* cat, dog and sun are at 80 or more; level B has no words
C13_Witness ==
    /\ response = AllMastered
    /\ WordsOfLevel(2) = {}
    /\ \A w \in {1, 2, 3} : HasRecord(1, w) /\ RecordOf(1, w).score >= 8000

----------------------------------------------------------------------------
(* Properties of compare_token_sequences *)

\* compare_token_sequences has returned for the arguments of the request
Compared ==
    /\ request.op = "compare_token_sequences"
    /\ "alignment" \in DOMAIN response

\* C15: for all token lists, the empty ones included, the call returns an
\* alignment of equal / substitution / deletion / insertion ops in which the
\* ops that are not insertions number len(expected) and those that are not
\* deletions number len(spoken); with nothing spoken all ops are deletions,
\* with nothing expected all are insertions, both with phoneme_score 0.0,
\* and two empty lists give an empty alignment with phoneme_score 0.0.
C15_OpsCoverBothLists ==
    Compared =>
        LET a == response.alignment
        IN  /\ \A k \in 1..Len(a) :
                  a[k].op \in {"equal", "substitution", "deletion", "insertion"}
            /\ Len(a) - CountOp(a, "insertion") = Len(request.expected)
            /\ Len(a) - CountOp(a, "deletion") = Len(request.spoken)
            /\ request.spoken = <<>>
                  => /\ CountOp(a, "deletion") = Len(a)
                     /\ response.phoneme_score = 0
            /\ request.expected = <<>>
                  => /\ CountOp(a, "insertion") = Len(a)
                     /\ response.phoneme_score = 0
            /\ (request.expected = <<>> /\ request.spoken = <<>>) => a = <<>>

\* three expected phonemes and silence: three deletions
C15_Witness ==
    /\ Compared
    /\ request.spoken = <<>>
    /\ Len(request.expected) = 3
    /\ Len(response.alignment) = 3
    /\ response.phoneme_score = 0

\* C16: a non-empty token list compared with itself gives len(A) equal ops,
\* no other op, and phoneme_score 100.0, also with repeated tokens.
C16_SelfAlignment ==
    (Compared /\ request.expected = request.spoken /\ request.expected # <<>>)
    => /\ Len(response.alignment) = Len(request.expected)
       /\ \A k \in 1..Len(response.alignment) :
             /\ response.alignment[k].op = "equal"
             /\ response.alignment[k].expected = request.expected[k]
             /\ response.alignment[k].spoken = request.expected[k]
       /\ response.phoneme_score = 10000

\* [K, K, T] against itself
C16_Witness ==
    /\ Compared
    /\ request.expected = <<K, K, T>>
    /\ request.spoken = <<K, K, T>>
    /\ response.phoneme_score = 10000

\* C18: two lists of the same length n >= 1 that differ in exactly one
\* position give one substitution, n - 1 equal ops, no insertion and no
\* deletion, and phoneme_score round((n - 1) / n * 100, 2); [K, AE, T]
\* against [K, EH, T] gives 66.67.
C18_OneSubstitution ==
    (/\ Compared
     /\ Len(request.expected) = Len(request.spoken)
     /\ Cardinality({k \in 1..Len(request.expected) :
                        request.expected[k] # request.spoken[k]}) = 1)
    => LET a == response.alignment
           n == Len(request.expected)
           off == response.phoneme_score * n - (n - 1) * 10000
       IN  /\ CountOp(a, "substitution") = 1
           /\ CountOp(a, "equal") = n - 1
           /\ CountOp(a, "insertion") = 0
           /\ CountOp(a, "deletion") = 0
           /\ 2 * off <= n /\ -2 * off <= n
           /\ (request.expected = <<K, AE, T>> /\ request.spoken = <<K, EH, T>>)
                 => response.phoneme_score = 6667

C18_Witness ==
    /\ Compared
    /\ request.expected = <<K, AE, T>>
    /\ request.spoken = <<K, EH, T>>
    /\ response.alignment[2].op = "substitution"
    /\ response.phoneme_score = 6667

\* +2 per equal op, -1 per substitution, insertion or deletion
AlignmentScore(a) ==
    2 * CountOp(a, "equal") - CountOp(a, "substitution")
        - CountOp(a, "insertion") - CountOp(a, "deletion")

\* the best total any global alignment of the two lists can have: its last
\* op pairs the two last tokens, or deletes the last expected token, or
\* inserts the last spoken one
RECURSIVE BestGlobal(_, _)
BestGlobal(expected, spoken) ==
    IF expected = <<>> THEN -Len(spoken)
    ELSE IF spoken = <<>> THEN -Len(expected)
    ELSE LET e == SubSeq(expected, 1, Len(expected) - 1)
             s == SubSeq(spoken, 1, Len(spoken) - 1)
             pair == IF expected[Len(expected)] = spoken[Len(spoken)]
                     THEN 2 ELSE -1
         IN  Max3(BestGlobal(e, s) + pair,
                  BestGlobal(e, spoken) - 1,
                  BestGlobal(expected, s) - 1)

\* C20: the returned alignment is a best-scoring global alignment: its
\* total (+2 equal, -1 substitution, -1 insertion or deletion) is dp[n][m]
\* and no global alignment of the two lists has a higher total.
C20_BestGlobalAlignment ==
    Compared =>
        /\ AlignmentScore(response.alignment)
               = CellAt(AlignTable(request.expected, request.spoken),
                        Len(request.spoken),
                        Len(request.expected), Len(request.spoken)).dp
        /\ AlignmentScore(response.alignment)
               = BestGlobal(request.expected, request.spoken)

\* [K, T] against [K, AE, T]: the best alignment needs an insertion
C20_Witness ==
    /\ Compared
    /\ request.expected = <<K, T>>
    /\ request.spoken = <<K, AE, T>>
    /\ CountOp(response.alignment, "insertion") = 1
    /\ CountOp(response.alignment, "equal") = 2

\* the alignment of the same two lists with their roles swapped
Swapped == compare_token_sequences(request.spoken, request.expected).alignment

\* C17 as stated: compare_token_sequences(A, B) and
\* compare_token_sequences(B, A) have the same number of equal ops.
C17_EqualCountSymmetric ==
    Compared =>
        CountOp(response.alignment, "equal") = CountOp(Swapped, "equal")

\* C17, amended: the alignments of (A, B) and of (B, A) have the same total
\* (+2 per equal op, -1 per substitution, insertion or deletion), that is
\* the same value of 4 * equal + substitutions; their equal counts are the
\* same whenever their substitution counts are.
C17_ScoreSymmetric ==
    Compared =>
        LET there == response.alignment
            back  == Swapped
        IN  /\ AlignmentScore(there) = AlignmentScore(back)
            /\ 4 * CountOp(there, "equal") + CountOp(there, "substitution")
                   = 4 * CountOp(back, "equal") + CountOp(back, "substitution")
            /\ CountOp(there, "substitution") = CountOp(back, "substitution")
                   => CountOp(there, "equal") = CountOp(back, "equal")

\* [K, AE, AE, AE, K] against [T, T, T, T, K, AE]: two equal ops and no
\* substitution one way, one equal op and four substitutions the other
C17_Witness ==
    /\ Compared
    /\ request.expected = <<K, AE, AE, AE, K>>
    /\ request.spoken = <<T, T, T, T, K, AE>>
    /\ CountOp(response.alignment, "equal") = 2
    /\ CountOp(Swapped, "equal") = 1
    /\ CountOp(Swapped, "substitution") = 4

----------------------------------------------------------------------------
(* Properties of analyze_phonemes_for_audio *)

Analyzed ==
    /\ request.op = "analyze_phonemes_for_audio"
    /\ "word_breakdown" \in DOMAIN response

RECURSIVE SumMatched(_)
SumMatched(word_breakdown) ==
    IF word_breakdown = <<>> THEN 0
    ELSE Head(word_breakdown).matched + SumMatched(Tail(word_breakdown))

\* C19: every word_breakdown entry has phoneme_count equal to the number of
\* expected phonemes of its word, matched <= phoneme_count and score =
\* round(matched / phoneme_count * 100, 2), or 0.0 when phoneme_count is 0;
\* the matched counts of all words add up to the equal ops of the alignment.
C19_WordBreakdown ==
    Analyzed =>
        LET words == ExpectedWords(request.expected_text)
            wb == response.word_breakdown
        IN  /\ Len(wb) = Len(words)
            /\ \A k \in 1..Len(wb) :
                  /\ wb[k].phoneme_count
                         = Len(simple_str_phoneme_mapping(text_to_arpabet(words[k])))
                  /\ wb[k].matched <= wb[k].phoneme_count
                  /\ wb[k].phoneme_count = 0 => wb[k].score = 0
                  /\ wb[k].phoneme_count > 0
                         => LET off == wb[k].score * wb[k].phoneme_count
                                           - wb[k].matched * 10000
                            IN  /\ 2 * off <= wb[k].phoneme_count
                                /\ -2 * off <= wb[k].phoneme_count
            /\ SumMatched(wb) = CountOp(response.alignment, "equal")

----------------------------------------------------------------------------
(* Properties of the calls on a missing curriculum *)

\* a dictionary (never None) that is not a recommendation or the terminal
\* "all levels mastered" result of either variant
NoRecommendation(result) ==
    /\ result # ReturnsNone
    /\ "recommend" \notin DOMAIN result
    /\ result # AllMastered
    /\ result # BackendAllMastered

\* C14: with no level configured, recommend_next_word of both variants
\* returns a "no recommendation" dictionary that is not the "all levels
\* mastered" result; for a level name that no level has, get_level_status
\* and adaptive_next_word return the "Level not found" error dictionary;
\* none of them returns None.
C14_MissingCurriculumReported ==
    \A u \in Users :
        /\ level_rows = <<>>
              => /\ NoRecommendation(recommend_next_word(u))
                 /\ NoRecommendation(backend_recommend_next_word(u))
        /\ \A name \in LevelNames :
              LevelByName(name) = None
              => /\ get_level_status(u, name) = LevelNotFound
                 /\ adaptive_next_word(u, name) = LevelNotFound

----------------------------------------------------------------------------
(* The path compare_token_sequences reports *)

\* the first i tokens of a list
Prefix(tokens, i) == SubSeq(tokens, 1, i)

\* the best total of every pair of prefixes, as the tuple of the rows
\* i = 0..n, each the tuple of the columns j = 0..m
BestTotals(expected, spoken) ==
    [r \in 1..(Len(expected) + 1) |->
        [c \in 1..(Len(spoken) + 1) |->
            BestGlobal(Prefix(expected, r - 1), Prefix(spoken, c - 1))]]

\* the step that is to be recorded at cell (i, j), from the best totals of
\* the neighbouring pairs of prefixes: diagonal if it reaches the best
\* total of the cell, otherwise vertical if it does, otherwise horizontal;
\* on the borders there is one way only
PreferredStep(totals, expected, spoken, i, j) ==
    IF j = 0 THEN "up"
    ELSE IF i = 0 THEN "left"
    ELSE IF totals[i][j] + (IF expected[i] = spoken[j] THEN 2 ELSE -1)
              = totals[i + 1][j + 1]
    THEN "diag"
    ELSE IF totals[i][j + 1] - 1 = totals[i + 1][j + 1]
    THEN "up"
    ELSE "left"

\* the ops met on the way from (0, 0) to (i, j) when every cell is left
\* backwards by its preferred step
RECURSIVE PreferredPath(_, _, _, _, _)
PreferredPath(totals, expected, spoken, i, j) ==
    IF i = 0 /\ j = 0 THEN <<>>
    ELSE LET step == PreferredStep(totals, expected, spoken, i, j)
         IN  IF step = "diag"
             THEN Append(PreferredPath(totals, expected, spoken, i - 1, j - 1),
                         [expected |-> expected[i], spoken |-> spoken[j],
                          op |-> IF expected[i] = spoken[j]
                                 THEN "equal" ELSE "substitution"])
             ELSE IF step = "up"
             THEN Append(PreferredPath(totals, expected, spoken, i - 1, j),
                         [expected |-> expected[i], spoken |-> <<>>,
                          op |-> "deletion"])
             ELSE Append(PreferredPath(totals, expected, spoken, i, j - 1),
                         [expected |-> <<>>, spoken |-> spoken[j],
                          op |-> "insertion"])

\* C21: at every cell of the matrix the recorded step is the diagonal one
\* if it reaches the maximum, otherwise the vertical one (deletion) if it
\* does, otherwise the horizontal one (insertion), and the reported
\* alignment is the path of these recorded steps from (n, m) back to
\* (0, 0), in left-to-right order.
C21_TieBreakPath ==
    Compared =>
        LET expected == request.expected
            spoken == request.spoken
            table == AlignTable(expected, spoken)
            totals == BestTotals(expected, spoken)
        IN  /\ Len(totals) = Len(expected) + 1
            /\ \A r \in 1..Len(totals) : Len(totals[r]) = Len(spoken) + 1
            /\ \A i \in 0..Len(expected), j \in 0..Len(spoken) :
                  (i > 0 \/ j > 0)
                  => CellAt(table, Len(spoken), i, j).ptr.op
                         = PreferredStep(totals, expected, spoken, i, j)
            /\ response.alignment
                   = PreferredPath(totals, expected, spoken,
                                   Len(expected), Len(spoken))

\* [K, K] against [K]: at cell (2, 1) the diagonal and the vertical step
\* both reach 1; the diagonal one is recorded, so the first K is the one
\* reported as deleted
C21_Witness ==
    /\ Compared
    /\ request.expected = <<K, K>>
    /\ request.spoken = <<K>>
    /\ response.alignment =
           <<[expected |-> K, spoken |-> Empty, op |-> "deletion"],
             [expected |-> K, spoken |-> K, op |-> "equal"]>>

----------------------------------------------------------------------------
(* Properties of get_next_adaptive_word *)

AdaptiveAsked == request.op = "get_next_adaptive_word"

\* what the two variants return for the request
AdaptiveResults ==
    {get_next_adaptive_word(request.user_id, request.level),
     backend_get_next_adaptive_word(request.user_id, request.level)}

\* the ids of the stored words of the level asked for
StoredLevelWords ==
    {w.id : w \in {x \in SeqToSet(word_rows) :
                      x.text \in SeqToSet(get_words_for_level(request.level))}}

IsMastered(user_id, word_id) ==
    HasRecord(user_id, word_id) /\ RecordOf(user_id, word_id).mastered = "yes"

\* attempted and not mastered
IsWeak(user_id, word_id) ==
    HasRecord(user_id, word_id) /\ RecordOf(user_id, word_id).mastered = "no"

\* C22: get_next_adaptive_word never returns as next_word a mastered word
\* while the level holds a word that is unattempted or attempted but not
\* mastered, whatever the attempts and penalty_score of the records.
C22_MasteredWordsLast ==
    AdaptiveAsked =>
        \A r \in AdaptiveResults :
            ("next_word" \in DOMAIN r
                /\ IsMastered(request.user_id, WordId(r.next_word)))
            => \A w \in StoredLevelWords : IsMastered(request.user_id, w)

\* the mastered records of the user on stored words of the level
MasteredRecords ==
    {k \in 1..Len(user_progress) :
        /\ user_progress[k].user_id = request.user_id
        /\ user_progress[k].word_id \in StoredLevelWords
        /\ user_progress[k].mastered = "yes"}

\* C23: for a level with configured words the result is level_complete
\* exactly when the mastered records among the stored words of the level
\* number at least 0.8 times those words (also when no word is stored),
\* and otherwise a practice result that names a stored word of the level;
\* the call never fails on an empty candidate list.
C23_LevelCompleteAtFourFifths ==
    (AdaptiveAsked /\ get_words_for_level(request.level) # <<>>) =>
        \A r \in AdaptiveResults :
            /\ r # IndexError
            /\ "status" \in DOMAIN r
            /\ r.status \in {"level_complete", "practice"}
            /\ r.status = "level_complete"
                  <=> 5 * Cardinality(MasteredRecords)
                          >= 4 * Cardinality(StoredLevelWords)
            /\ r.status = "level_complete"
                  => /\ r.mastered = Cardinality(MasteredRecords)
                     /\ r.total = Cardinality(StoredLevelWords)
            /\ r.status = "practice"
                  => /\ Known(r.next_word)
                     /\ WordId(r.next_word) \in StoredLevelWords

\* four of the five stored words of level C are mastered, the fifth has
\* not been attempted: the level is reported complete
C23_Witness ==
    /\ AdaptiveAsked
    /\ request.level = "C"
    /\ "mastered" \in DOMAIN response
    /\ response.status = "level_complete"
    /\ response.mastered = 4
    /\ response.total = 5

\* C24: in app/services/adaptive_engine.py, whenever the level is not
\* complete and holds an unattempted word, the returned next_word is an
\* unattempted word, whatever the records of the attempted words.
C24_NewWordFirst ==
    AdaptiveAsked =>
        LET r == get_next_adaptive_word(request.user_id, request.level)
        IN  ("next_word" \in DOMAIN r
                /\ \E w \in StoredLevelWords : ~HasRecord(request.user_id, w))
            => ~HasRecord(request.user_id, WordId(r.next_word))

\* C25: among the attempted, unmastered words of the level the weaker one
\* is more urgent: the returned word is not one with a higher latest score
\* than another such word of equal penalty_score and moving_avg_score, nor
\* one with a lower penalty_score than another such word of equal score
\* and moving_avg_score.
C25_WeakerWordFirst ==
    AdaptiveAsked =>
        \A r \in AdaptiveResults :
            ("next_word" \in DOMAIN r
                /\ IsWeak(request.user_id, WordId(r.next_word)))
            => LET chosen == RecordOf(request.user_id, WordId(r.next_word))
               IN  \A w \in StoredLevelWords :
                       IsWeak(request.user_id, w)
                       => LET other == RecordOf(request.user_id, w)
                          IN  /\ (/\ other.penalty_score = chosen.penalty_score
                                  /\ other.moving_avg_score = chosen.moving_avg_score)
                                 => chosen.score <= other.score
                              /\ (/\ other.score = chosen.score
                                  /\ other.moving_avg_score = chosen.moving_avg_score)
                                 => chosen.penalty_score >= other.penalty_score

----------------------------------------------------------------------------
(* Properties of compare_words *)

\* C26: every pair of words gets exactly one outcome: identical after
\* lower-casing and trimming gives no mistake and score 100; otherwise an
\* empty observed word gives missing_word and score 0; otherwise a score
\* above 80 gives no mistake, a score from 60 to 80, both ends included,
\* gives near_miss, and a score below 60 gives extra_pronunciation when
\* the observed word is longer than the expected one and mispronounced
\* when it is not.
C26_OutcomeByScore ==
    request.op = "compare_words" =>
        LET e == Strip(Lower(request.expected))
            o == Strip(Lower(request.spoken))
            r == compare_words(request.expected, request.spoken)
            score == r[1]
            mistake == r[2]
        IN  /\ e = o => (score = 10000 /\ mistake = "None")
            /\ (e # o /\ o = <<>>) => (score = 0 /\ mistake = "missing_word")
            /\ (e # o /\ o # <<>>) =>
                  /\ score > 8000 => mistake = "None"
                  /\ (score >= 6000 /\ score <= 8000) => mistake = "near_miss"
                  /\ (score < 6000 /\ Len(o) > Len(e))
                        => mistake = "extra_pronunciation"
                  /\ (score < 6000 /\ Len(o) <= Len(e))
                        => mistake = "mispronounced"

----------------------------------------------------------------------------
(* Properties of recommend_next_word together with record_attempt *)

\* C27: in every state reached through record_attempt, a word returned by
\* recommend_next_word has no progress record of the user or has a latest
\* score below 80; a word with score >= 80 is never recommended.
C27_RecommendedNotMastered ==
    \A u \in Users :
        LET r == recommend_next_word(u)
        IN  "recommend" \in DOMAIN r
            => /\ Known(r.recommend)
               /\ \/ ~HasRecord(u, WordId(r.recommend))
                  \/ RecordOf(u, WordId(r.recommend)).score < 8000

\* dog, at 60, has been recommended while cat of the same level stands at
\* 80 or more
C27_Witness ==
    /\ "recommend" \in DOMAIN response
    /\ response.recommend = "dog"
    /\ HasRecord(1, 2)
    /\ RecordOf(1, 2).score = 6000
    /\ HasRecord(1, 1)
    /\ RecordOf(1, 1).score >= 8000

\* C28: a learner who keeps asking for the next word and practising the
\* word returned, and who brings every recommended word to a score of 80
\* or more (after which it is not attempted below 80), is eventually told
\* "all levels mastered", and is told so from then on for as long as no
\* further attempt is recorded.
C28_EventuallyAllMastered == <>[](response = AllMastered)

\* the learner has been told so with cat, dog and sun at 80 or more
C28_Witness ==
    /\ response = AllMastered
    /\ \A w \in 1..3 : HasRecord(1, w) /\ RecordOf(1, w).score >= 8000

\* the levels that hold the word
LevelsOfWord(word) ==
    {l \in SeqToSet(level_rows) : WordId(word) \in WordsOfLevel(l.id)}

\* recommend_next_word is past the level: it names a level with a greater
\* id or says that all levels are mastered
PastLevel(user_id, level) ==
    LET r == recommend_next_word(user_id)
    IN  \/ r = AllMastered
        \/ /\ "recommend" \in DOMAIN r
           /\ LevelOfName(r.level).id > level.id

\* the word is the one word that keeps the learner in the level: the
\* levels before it are complete, the word has a record with a score
\* below 80, and the other words of the level have one of 80 or more
OnlyOpenWord(user_id, level, word_id) ==
    /\ \A k \in SeqToSet(level_rows) :
          k.id < level.id => LevelComplete(user_id, k.id)
    /\ word_id \in WordsOfLevel(level.id)
    /\ \E p \in SeqToSet(user_progress) :
          p.user_id = user_id /\ p.word_id = word_id /\ p.score < 8000
    /\ \A v \in WordsOfLevel(level.id) \ {word_id} :
          \E p \in SeqToSet(user_progress) :
              p.user_id = user_id /\ p.word_id = v /\ p.score >= 8000

\* C29: level progression is not sticky: when recommend_next_word is past
\* a level (or says "all levels mastered"), a record_attempt with a score
\* below 80 on a word of that level makes the next recommend_next_word
\* return a word of that level again (the word attempted).  In two parts:
\* such an attempt leaves the word as the one open word of the level, and
\* in every state recommend_next_word returns the one open word of a
\* level.
C29_NotSticky ==
    /\ [][\A u \in Users, w \in Texts, sc \in Scores, t \in Times :
             (/\ sc < 80
              /\ Known(w)
              /\ RecordAttempt(u, w, sc, t))
             => \A level \in LevelsOfWord(w) :
                   PastLevel(u, level) => OnlyOpenWord(u, level, WordId(w))']_vars
    /\ [](\A u \in Users, level \in SeqToSet(level_rows) :
             \A w \in SeqToSet(word_rows) :
                OnlyOpenWord(u, level, w.id)
                => /\ "recommend" \in DOMAIN recommend_next_word(u)
                   /\ recommend_next_word(u).level = level.name
                   /\ recommend_next_word(u).recommend = w.text)

\* level A was complete (dog had just been brought to 80 or more, cat
\* stood at 90 after three attempts) when a fourth attempt on cat scored
\* 50: cat is the word to practise again
C29_Witness ==
    /\ response = Recorded("cat", 50)
    /\ HasRecord(1, 1) /\ RecordOf(1, 1).attempts = 4
    /\ HasRecord(1, 2) /\ RecordOf(1, 2).score >= 8000
    /\ recommend_next_word(1).level = "A"
    /\ recommend_next_word(1).recommend = "cat"

----------------------------------------------------------------------------
(* What the calls change in the tables *)

\* the step is one of the calls that only read
ReadOnlyCall ==
    \/ \E u \in Users : recommend_next(u)
    \/ \E u \in Users, name \in LevelNames : level_status(u, name)
    \/ adaptive_next
    \/ backend_adaptive_next

\* the row is a progress record of the pair
RecordOfPair(p, user_id, word_id) ==
    p.user_id = user_id /\ p.word_id = word_id

\* C30: a record_attempt for (u, w) changes or creates only the progress
\* record of (u, w): every row of user_progress of another (user, word)
\* pair is as before, no row is removed, a row added is a record of (u, w),
\* and the Word, Level and LevelWord rows are unchanged; a call for a word
\* that is not in the words table changes no row; recommend_next_word,
\* get_level_status and get_next_adaptive_word change no table.
C30_OnlyOwnRecord ==
    [][/\ \A u \in Users, w \in Texts, sc \in Scores, t \in Times :
             RecordAttempt(u, w, sc, t)
             => /\ UNCHANGED <<curriculum, learning_rows>>
                /\ Len(user_progress') \in
                       {Len(user_progress), Len(user_progress) + 1}
                /\ ~Known(w) => UNCHANGED user_progress
                /\ \A i \in 1..Len(user_progress') :
                      \/ /\ i <= Len(user_progress)
                         /\ user_progress'[i] = user_progress[i]
                      \/ /\ Known(w)
                         /\ RecordOfPair(user_progress'[i], u, WordId(w))
                         /\ i <= Len(user_progress)
                            => RecordOfPair(user_progress[i], u, WordId(w))
       /\ ReadOnlyCall
             => UNCHANGED <<curriculum, user_progress, learning_rows>>]_vars

\* user 1 has just made an attempt of 50 on cat, a word on which user 2
\* has a record of one attempt of 90: user 1's record holds the attempt
\* and user 2's record is the one of the start
C30_Witness ==
    /\ response = Recorded("cat", 50)
    /\ HasRecord(1, 1)
    /\ RecordOf(1, 1).score = 5000
    /\ HasRecord(2, 1)
    /\ RecordOf(2, 1) = AfterAttempts(1, 2, 1, <<90>>)
    /\ request.op = "get_next_adaptive_word"

====
